---- MODULE Spec2Model ----
(***************************************************************************)
(* A model of the wasminspect interpreter core: the executor's step        *)
(* function (crates/vm/src/executor.rs), the run driver simple_invoke_func *)
(* and the stack / store / memory collaborators it drives.                 *)
(***************************************************************************)
EXTENDS Integers, Sequences, FiniteSets, TLC

VARIABLES pc, stack, mem, signal, trap, result, steps, breakFuncs, entry,
          overflowChecks, table, tableRet, tableWritten, tableOps,
          globals, intercepted, constEval, numEval

execVars == <<pc, stack, mem, signal, trap, result, steps, breakFuncs, entry,
              overflowChecks, globals, intercepted>>

tableVars == <<table, tableRet, tableWritten, tableOps>>

constVars == <<constEval, numEval>>

vars == <<pc, stack, mem, signal, trap, result, steps, breakFuncs, entry,
          overflowChecks, table, tableRet, tableWritten, tableOps,
          globals, intercepted, constEval, numEval>>

(***************************************************************************)
(* Bounds of the model.                                                    *)
(***************************************************************************)
\* The number of execute_step calls one run of the driver may make.
MaxSteps == 70

\* The largest `initial` a table is created with, the longest element
\* segment, and the number of calls made on one table.
MaxInitial == 3
MaxData == 2
MaxTableOps == 3

(***************************************************************************)
(* Values.  A Value is a type tag and a bit pattern.  A 32-bit pattern     *)
(* (I32, and the raw bits of an F32) is kept as the signed integer with    *)
(* those bits, in the field v; a 64-bit pattern (I64, and the raw bits of  *)
(* an F64) is given as the pair <<hi, lo>> of its two 32-bit words, each   *)
(* kept the same way, in the fields hi and v.                              *)
(***************************************************************************)
MaxI32 == 2147483647
MinI32 == -MaxI32 - 1

VI32(v) == [ty |-> "I32", v |-> v, hi |-> 0]
VI64(v) == [ty |-> "I64", v |-> v[2], hi |-> v[1]]
VF32(v) == [ty |-> "F32", v |-> v, hi |-> 0]
VF64(v) == [ty |-> "F64", v |-> v[2], hi |-> v[1]]

\* the 64-bit pattern of the i64 whose value is the 32-bit integer a
Int64(a) == <<IF a < 0 THEN -1 ELSE 0, a>>

\* a.wrapping_add(b) on 32 bits, computed without leaving the 32-bit range
WrappingAdd32(a, b) ==
  IF a >= 0 /\ b >= 0 /\ a > MaxI32 - b THEN (a - MaxI32 - 1) + (b - MaxI32 - 1)
  ELSE IF a < 0 /\ b < 0 /\ a < MinI32 - b THEN (a + MaxI32 + 1) + (b + MaxI32 + 1)
  ELSE a + b

\* a.wrapping_sub(b) on 32 bits
WrappingSub32(a, b) ==
  IF b = MinI32 THEN (IF a >= 0 THEN a + MinI32 ELSE (a + MaxI32) + 1)
  ELSE WrappingAdd32(a, -b)

(***************************************************************************)
(* Stack entries: Value, Label, Activation(CallFrame).                     *)
(***************************************************************************)
SV(val) == [k |-> "Value", val |-> val]
SL(label) == [k |-> "Label", label |-> label]
SA(frame) == [k |-> "Activation", frame |-> frame]

LabelBlock(arity) == [kind |-> "Block", arity |-> arity, hdr |-> 0]
LabelIf(arity) == [kind |-> "If", arity |-> arity, hdr |-> 0]
LabelReturn(arity) == [kind |-> "Return", arity |-> arity, hdr |-> 0]
\* Label::new_loop(start): a Loop label remembers the index of its Loop instruction
LabelLoop(start) == [kind |-> "Loop", arity |-> 0, hdr |-> start]

\* Label::arity: the number of values a branch to the label carries
LabelArity(label) == IF label.kind = "Loop" THEN 0 ELSE label.arity

IsValue(e) == e.k = "Value"
IsLabel(e) == e.k = "Label"
IsActivation(e) == e.k = "Activation"

Reverse(s) == [i \in 1..Len(s) |-> s[Len(s) + 1 - i]]
Front(s) == SubSeq(s, 1, Len(s) - 1)
Top(s) == s[Len(s)]

\* index of the topmost Activation entry, 0 when there is none
TopActivation(s) ==
  LET idx == {i \in 1..Len(s) : IsActivation(s[i])}
  IN IF idx = {} THEN 0 ELSE CHOOSE i \in idx : \A j \in idx : j <= i

HasFrame(s) == TopActivation(s) # 0

PushValue(s, v) == Append(s, SV(v))
PushLabel(s, l) == Append(s, SL(l))
SetFrame(s, f) == Append(s, SA(f))

NoValue == [ty |-> "None", v |-> 0, hi |-> 0]

\* pop_value: popping over a Label or an Activation, or from an empty stack, is an error
PopValue(s) ==
  IF s # <<>> /\ IsValue(Top(s))
  THEN [ok |-> TRUE, val |-> Top(s).val, stack |-> Front(s)]
  ELSE [ok |-> FALSE, val |-> NoValue, stack |-> s]

\* pop_label: symmetric
PopLabel(s) ==
  IF s # <<>> /\ IsLabel(Top(s))
  THEN [ok |-> TRUE, label |-> Top(s).label, stack |-> Front(s)]
  ELSE [ok |-> FALSE, label |-> LabelBlock(0), stack |-> s]

\* pop_frame: pops down to and including the top Activation
PopFrame(s) ==
  IF HasFrame(s)
  THEN [ok |-> TRUE, stack |-> SubSeq(s, 1, TopActivation(s) - 1)]
  ELSE [ok |-> FALSE, stack |-> s]

\* current_frame: the top activation's CallFrame (callers check HasFrame first)
CurrentFrame(s) == s[TopActivation(s)].frame

\* current_frame_labels: the labels above the top activation, oldest first
RECURSIVE LabelsOf(_)
LabelsOf(s) ==
  IF s = <<>> THEN <<>>
  ELSE IF IsLabel(s[1]) THEN <<s[1].label>> \o LabelsOf(Tail(s))
  ELSE LabelsOf(Tail(s))

CurrentFrameLabels(s) == LabelsOf(SubSeq(s, TopActivation(s) + 1, Len(s)))

\* is_func_top_level: the top activation carries exactly one label, its Return label
IsFuncTopLevel(s) == Len(CurrentFrameLabels(s)) = 1

\* is_over_top_level: the root activation has been popped
IsOverTopLevel(s) == ~HasFrame(s)

\* pop_while(is a Value): the popped entries in pop order (topmost first)
RECURSIVE PopWhileValue(_)
PopWhileValue(s) ==
  IF s # <<>> /\ IsValue(Top(s))
  THEN LET r == PopWhileValue(Front(s))
       IN [popped |-> <<Top(s)>> \o r.popped, stack |-> r.stack]
  ELSE [popped |-> <<>>, stack |-> s]

\* pop_while(is not an Activation)
RECURSIVE PopWhileNotActivation(_)
PopWhileNotActivation(s) ==
  IF s # <<>> /\ ~IsActivation(Top(s))
  THEN PopWhileNotActivation(Front(s))
  ELSE s

\* n times pop_value, stopping at the first failure; vals in pop order
RECURSIVE PopValues(_, _)
PopValues(s, n) ==
  IF n = 0 THEN [ok |-> TRUE, vals |-> <<>>, stack |-> s]
  ELSE LET p == PopValue(s)
       IN IF ~p.ok THEN [ok |-> FALSE, vals |-> <<>>, stack |-> s]
          ELSE LET r == PopValues(p.stack, n - 1)
               IN [ok |-> r.ok, vals |-> <<p.val>> \o r.vals, stack |-> r.stack]

RECURSIVE PushValues(_, _)
PushValues(s, vals) ==
  IF vals = <<>> THEN s ELSE PushValues(PushValue(s, vals[1]), Tail(vals))

\* Stack::set_local on the current frame
SetLocalAt(s, index, v) ==
  [s EXCEPT ![TopActivation(s)].frame.locals[index + 1] = v]

(***************************************************************************)
(* Instructions and function instances.  An instruction is its kind, one   *)
(* numeric immediate, a block type and (for BrTable) the branch table.     *)
(***************************************************************************)
Ins(op) == [op |-> op, a |-> 0, ty |-> "Empty", tbl |-> <<>>]
InsA(op, a) == [op |-> op, a |-> a, ty |-> "Empty", tbl |-> <<>>]
InsT(op, ty) == [op |-> op, a |-> 0, ty |-> ty, tbl |-> <<>>]
InsBrTable(tbl, default) == [op |-> "BrTable", a |-> default, ty |-> "Empty", tbl |-> tbl]

Func(name, params, returns, code) ==
  [name |-> name, module |-> 1, params |-> params, returns |-> returns,
   locals |-> <<>>, code |-> code, host |-> "none"]

\* (func $add (param i32 i32) (result i32) local.get 0 local.get 1 i32.add)
FnAdd == Func("add", <<"I32", "I32">>, <<"I32">>,
  << InsA("LocalGet", 0), InsA("LocalGet", 1), Ins("I32Add"), Ins("End") >>)

\* three nested blocks, intermediate values in each, and br 2 carrying 42
FnBrNested == Func("br_nested", <<>>, <<"I32">>,
  << InsT("Block", "I32"),        \* 0
     InsA("I32Const", 7),         \* 1
     InsT("Block", "Empty"),      \* 2
     InsA("I64Const", Int64(8)),         \* 3
     InsT("Block", "Empty"),      \* 4
     InsA("I32Const", 9),         \* 5
     InsA("I32Const", 42),        \* 6
     InsA("Br", 2),               \* 7
     Ins("End"),                  \* 8
     Ins("Unreachable"),          \* 9
     Ins("End"),                  \* 10
     Ins("Unreachable"),          \* 11
     Ins("End"),                  \* 12
     Ins("End") >>)               \* 13

\* a countdown loop that leaves a value on the stack before it branches back
FnLoop == Func("loop", <<"I32">>, <<"I32">>,
  << InsT("Loop", "Empty"),       \* 0
     InsA("I32Const", 5),         \* 1
     InsA("LocalGet", 0),         \* 2
     InsA("I32Const", 1),         \* 3
     Ins("I32Sub"),               \* 4
     InsA("LocalTee", 0),         \* 5
     InsA("BrIf", 0),             \* 6
     Ins("Drop"),                 \* 7
     Ins("End"),                  \* 8
     InsA("LocalGet", 0),         \* 9
     Ins("End") >>)               \* 10

\* a loop whose back edge leaves a block nested in the loop (br 1)
FnLoopNested == Func("loop_nested", <<"I32">>, <<"I32">>,
  << InsT("Block", "Empty"),      \* 0
     InsT("Loop", "Empty"),       \* 1
     InsA("LocalGet", 0),         \* 2
     Ins("I32Eqz"),               \* 3
     InsA("BrIf", 1),             \* 4
     InsT("Block", "Empty"),      \* 5
     InsA("I32Const", 5),         \* 6
     InsA("LocalGet", 0),         \* 7
     InsA("I32Const", 1),         \* 8
     Ins("I32Sub"),               \* 9
     InsA("LocalSet", 0),         \* 10
     InsA("Br", 1),               \* 11
     Ins("End"),                  \* 12
     Ins("Unreachable"),          \* 13
     Ins("End"),                  \* 14
     Ins("End"),                  \* 15
     InsA("I32Const", 6),         \* 16
     Ins("End") >>)               \* 17

\* if/else whose branches contain nested Block and If/Else constructs
FnIfElse == Func("if_else", <<"I32", "I32">>, <<"I32">>,
  << InsA("LocalGet", 0),         \* 0
     InsT("If", "I32"),           \* 1
     InsT("Block", "Empty"),      \* 2
     InsA("LocalGet", 1),         \* 3
     InsT("If", "Empty"),         \* 4
     Ins("Nop"),                  \* 5
     Ins("Else"),                 \* 6
     Ins("Nop"),                  \* 7
     Ins("End"),                  \* 8
     Ins("End"),                  \* 9
     InsA("I32Const", 10),        \* 10
     Ins("Else"),                 \* 11
     InsT("Loop", "Empty"),       \* 12
     Ins("End"),                  \* 13
     InsA("I32Const", 20),        \* 14
     Ins("End"),                  \* 15
     Ins("End") >>)               \* 16

\* an if without else whose then-branch nests Block, Loop and If/Else
FnIfNoElse == Func("if_no_else", <<"I32", "I32">>, <<"I32">>,
  << InsA("LocalGet", 0),         \* 0
     InsT("If", "Empty"),         \* 1
     InsT("Block", "Empty"),      \* 2
     InsA("LocalGet", 1),         \* 3
     InsT("If", "Empty"),         \* 4
     Ins("Nop"),                  \* 5
     Ins("Else"),                 \* 6
     InsT("Loop", "Empty"),       \* 7
     Ins("End"),                  \* 8
     Ins("End"),                  \* 9
     Ins("End"),                  \* 10
     Ins("End"),                  \* 11
     InsA("I32Const", 1),         \* 12
     Ins("End") >>)               \* 13

\* br_table [1 2 3] default 0 inside three blocks; the result tells the target
FnBrTable == Func("br_table", <<"I32">>, <<"I32">>,
  << InsT("Block", "I32"),        \* 0
     InsT("Block", "I32"),        \* 1
     InsT("Block", "I32"),        \* 2
     InsA("I32Const", 0),         \* 3
     InsA("LocalGet", 0),         \* 4
     InsBrTable(<<1, 2, 3>>, 0),  \* 5
     Ins("End"),                  \* 6
     InsA("I32Const", 1),         \* 7
     Ins("I32Add"),               \* 8
     Ins("End"),                  \* 9
     InsA("I32Const", 10),        \* 10
     Ins("I32Add"),               \* 11
     Ins("End"),                  \* 12
     InsA("I32Const", 100),       \* 13
     Ins("I32Add"),               \* 14
     Ins("End") >>)               \* 15

\* callees that leave by End, by Return and by a branch to the Return label
FnCalleeEnd == Func("callee_end", <<"I32">>, <<"I32">>,
  << InsA("LocalGet", 0), InsA("I32Const", 1), Ins("I32Add"), Ins("End") >>)

FnCalleeRet == Func("callee_ret", <<"I32">>, <<"I32">>,
  << InsT("Block", "Empty"),      \* 0
     InsA("I32Const", 9),         \* 1
     InsA("LocalGet", 0),         \* 2
     Ins("Return"),               \* 3
     Ins("End"),                  \* 4
     Ins("Unreachable"),          \* 5
     Ins("End") >>)               \* 6

FnCalleeBr == Func("callee_br", <<"I32">>, <<"I32">>,
  << InsT("Block", "Empty"),      \* 0
     InsA("I64Const", Int64(9)),         \* 1
     InsA("LocalGet", 0),         \* 2
     InsA("Br", 1),               \* 3
     Ins("End"),                  \* 4
     Ins("Unreachable"),          \* 5
     Ins("End") >>)               \* 6

\* a caller with a value and an open block below the arguments of its calls
FnCaller == Func("caller", <<"I32">>, <<"I32">>,
  << InsA("I32Const", 77),        \* 0
     InsT("Block", "I32"),        \* 1
     InsA("LocalGet", 0),         \* 2
     InsA("Call", 7),             \* 3   callee_end
     InsA("Call", 8),             \* 4   callee_ret
     InsA("Call", 9),             \* 5   callee_br
     Ins("End"),                  \* 6
     Ins("I32Add"),               \* 7
     Ins("End") >>)               \* 8

\* two levels of calls below the callees
FnOuter == Func("outer", <<"I32">>, <<"I32">>,
  << InsA("I64Const", Int64(3)),         \* 0
     InsA("LocalGet", 0),         \* 1
     InsA("Call", 10),            \* 2   caller
     InsA("LocalSet", 0),         \* 3
     Ins("Drop"),                 \* 4
     InsA("LocalGet", 0),         \* 5
     Ins("End") >>)               \* 6

\* recursion: sum(n) = if n = 0 then 0 else n + sum(n - 1)
FnSum == Func("sum", <<"I32">>, <<"I32">>,
  << InsA("LocalGet", 0),         \* 0
     Ins("I32Eqz"),               \* 1
     InsT("If", "I32"),           \* 2
     InsA("I32Const", 0),         \* 3
     Ins("Else"),                 \* 4
     InsA("LocalGet", 0),         \* 5
     InsA("LocalGet", 0),         \* 6
     InsA("I32Const", 1),         \* 7
     Ins("I32Sub"),               \* 8
     InsA("Call", 12),            \* 9   sum
     Ins("I32Add"),               \* 10
     Ins("End"),                  \* 11
     Ins("End") >>)               \* 12

\* a callee without results, called with two arguments above a caller value
FnVoid == Func("void", <<"I32", "I32">>, <<>>,
  << Ins("Nop"), Ins("End") >>)

FnCallVoid == Func("call_void", <<"I32">>, <<"I32">>,
  << InsA("I32Const", 1),         \* 0
     InsA("LocalGet", 0),         \* 1
     InsA("I32Const", 3),         \* 2
     InsA("Call", 13),            \* 3   void
     Ins("End") >>)               \* 4

\* a trap raised two activations deep
FnTrap == Func("trap", <<>>, <<>>,
  << Ins("Unreachable"), Ins("End") >>)

FnCallTrap == Func("call_trap", <<>>, <<>>,
  << InsA("I32Const", 1), InsA("Call", 15), Ins("End") >>)

\* the function result is whatever the argument is
FnIdent == Func("ident", <<"I32">>, <<"I32">>,
  << InsA("LocalGet", 0), Ins("End") >>)

\* blocks whose bodies leave more values than the block type declares
FnBlockExtra == Func("block_extra", <<"I32">>, <<"I32">>,
  << InsT("Block", "Empty"),      \* 0
     InsA("LocalGet", 0),         \* 1
     Ins("End"),                  \* 2
     Ins("End") >>)               \* 3

FnBlockExtra2 == Func("block_extra2", <<"I32">>, <<"I32">>,
  << InsA("LocalGet", 0),         \* 0
     InsT("If", "I32"),           \* 1
     InsA("I32Const", 1),         \* 2
     InsA("I32Const", 2),         \* 3
     Ins("End"),                  \* 4
     Ins("Drop"),                 \* 5
     Ins("End") >>)               \* 6

\* one instruction each, fed its i32 operand from the argument
FnBrIf == Func("br_if", <<"I32">>, <<"I32">>,
  << InsT("Block", "Empty"),      \* 0
     InsA("LocalGet", 0),         \* 1
     InsA("BrIf", 0),             \* 2
     Ins("Nop"),                  \* 3
     Ins("End"),                  \* 4
     InsA("I32Const", 1),         \* 5
     Ins("End") >>)               \* 6

FnSelect == Func("select", <<"I32">>, <<"I32">>,
  << InsA("I32Const", 1), InsA("I32Const", 2), InsA("LocalGet", 0),
     Ins("Select"), Ins("End") >>)

FnLoadStore == Func("load_store", <<"I32">>, <<"I32">>,
  << InsA("LocalGet", 0),         \* 0
     InsA("I32Const", 305419896), \* 1   0x12345678
     InsA("I32Store", 0),         \* 2
     InsA("LocalGet", 0),         \* 3
     InsA("I32Load", 0),          \* 4
     Ins("End") >>)               \* 5

FnLoad == Func("load", <<"I32">>, <<"I32">>,
  << InsA("LocalGet", 0), InsA("I32Load", 2), Ins("End") >>)

FnGrow == Func("grow", <<"I32">>, <<"I32">>,
  << InsA("LocalGet", 0),         \* 0
     Ins("MemoryGrow"),           \* 1
     Ins("Drop"),                 \* 2
     Ins("MemorySize"),           \* 3
     Ins("End") >>)               \* 4

FnCallIndirect == Func("call_indirect", <<"I32">>, <<"I32">>,
  << InsA("I32Const", 4),         \* 0
     InsA("LocalGet", 0),         \* 1
     InsA("CallIndirect", 0),     \* 2   type 0: (i32) -> i32
     Ins("End") >>)               \* 3

\* a branch out of a then-branch to an enclosing block; the scan for the
\* continuation passes an Else and the nested constructs of the else-branch
FnBrSkip == Func("br_skip", <<"I32">>, <<"I32">>,
  << InsT("Block", "I32"),        \* 0
     InsA("LocalGet", 0),         \* 1
     InsT("If", "Empty"),         \* 2
     InsA("I32Const", 5),         \* 3
     InsA("I32Const", 42),        \* 4
     InsA("Br", 1),               \* 5
     Ins("Else"),                 \* 6
     InsT("Block", "Empty"),      \* 7
     InsT("Loop", "Empty"),       \* 8
     Ins("End"),                  \* 9
     Ins("End"),                  \* 10
     Ins("End"),                  \* 11
     InsA("I32Const", 1),         \* 12
     Ins("End"),                  \* 13
     Ins("End") >>)               \* 14

\* a branch to the If label itself, carrying one value over another
FnBrToIf == Func("br_to_if", <<"I32">>, <<"I32">>,
  << InsA("LocalGet", 0),         \* 0
     InsT("If", "I32"),           \* 1
     InsA("I32Const", 7),         \* 2
     InsA("I32Const", 8),         \* 3
     InsA("Br", 0),               \* 4
     Ins("Else"),                 \* 5
     InsA("I32Const", 9),         \* 6
     Ins("End"),                  \* 7
     Ins("End") >>)               \* 8

\* store then load of each value type at the same address: the address is
\* the first argument, the value the second
FnRtI32 == Func("rt_i32", <<"I32", "I32">>, <<"I32">>,
  << InsA("LocalGet", 0),         \* 0
     InsA("LocalGet", 1),         \* 1
     InsA("I32Store", 0),         \* 2
     InsA("LocalGet", 0),         \* 3
     InsA("I32Load", 0),          \* 4
     Ins("End") >>)               \* 5

FnRtI64 == Func("rt_i64", <<"I32", "I64">>, <<"I64">>,
  << InsA("LocalGet", 0),         \* 0
     InsA("LocalGet", 1),         \* 1
     InsA("I64Store", 1),         \* 2
     InsA("LocalGet", 0),         \* 3
     InsA("I64Load", 1),          \* 4
     Ins("End") >>)               \* 5

FnRtF32 == Func("rt_f32", <<"I32", "F32">>, <<"F32">>,
  << InsA("LocalGet", 0),         \* 0
     InsA("LocalGet", 1),         \* 1
     InsA("F32Store", 0),         \* 2
     InsA("LocalGet", 0),         \* 3
     InsA("F32Load", 0),          \* 4
     Ins("End") >>)               \* 5

FnRtF64 == Func("rt_f64", <<"I32", "F64">>, <<"F64">>,
  << InsA("LocalGet", 0),         \* 0
     InsA("LocalGet", 1),         \* 1
     InsA("F64Store", 3),         \* 2
     InsA("LocalGet", 0),         \* 3
     InsA("F64Load", 3),          \* 4
     Ins("End") >>)               \* 5

\* the narrowing stores of i32, each followed by the two loads that extend
\* what it wrote
FnNarrow32 == Func("narrow32", <<"I32", "I32">>, <<"I32">>,
  << InsA("LocalGet", 0),         \* 0
     InsA("LocalGet", 1),         \* 1
     InsA("I32Store8", 0),        \* 2
     InsA("LocalGet", 0),         \* 3
     InsA("I32Load8S", 0),        \* 4
     Ins("Drop"),                 \* 5
     InsA("LocalGet", 0),         \* 6
     InsA("I32Load8U", 0),        \* 7
     Ins("Drop"),                 \* 8
     InsA("LocalGet", 0),         \* 9
     InsA("LocalGet", 1),         \* 10
     InsA("I32Store16", 0),       \* 11
     InsA("LocalGet", 0),         \* 12
     InsA("I32Load16S", 0),       \* 13
     Ins("Drop"),                 \* 14
     InsA("LocalGet", 0),         \* 15
     InsA("I32Load16U", 0),       \* 16
     Ins("End") >>)               \* 17

\* the same for the narrowing stores of i64
FnNarrow64 == Func("narrow64", <<"I32", "I64">>, <<"I64">>,
  << InsA("LocalGet", 0),         \* 0
     InsA("LocalGet", 1),         \* 1
     InsA("I64Store8", 0),        \* 2
     InsA("LocalGet", 0),         \* 3
     InsA("I64Load8S", 0),        \* 4
     Ins("Drop"),                 \* 5
     InsA("LocalGet", 0),         \* 6
     InsA("I64Load8U", 0),        \* 7
     Ins("Drop"),                 \* 8
     InsA("LocalGet", 0),         \* 9
     InsA("LocalGet", 1),         \* 10
     InsA("I64Store16", 0),       \* 11
     InsA("LocalGet", 0),         \* 12
     InsA("I64Load16S", 0),       \* 13
     Ins("Drop"),                 \* 14
     InsA("LocalGet", 0),         \* 15
     InsA("I64Load16U", 0),       \* 16
     Ins("Drop"),                 \* 17
     InsA("LocalGet", 0),         \* 18
     InsA("LocalGet", 1),         \* 19
     InsA("I64Store32", 0),       \* 20
     InsA("LocalGet", 0),         \* 21
     InsA("I64Load32S", 0),       \* 22
     Ins("Drop"),                 \* 23
     InsA("LocalGet", 0),         \* 24
     InsA("I64Load32U", 0),       \* 25
     Ins("End") >>)               \* 26

\* two memory.grow in a row, then memory.size
FnGrowTwice == Func("grow_twice", <<"I32", "I32">>, <<"I32">>,
  << InsA("LocalGet", 0),         \* 0
     Ins("MemoryGrow"),           \* 1
     Ins("Drop"),                 \* 2
     InsA("LocalGet", 1),         \* 3
     Ins("MemoryGrow"),           \* 4
     Ins("Drop"),                 \* 5
     Ins("MemorySize"),           \* 6
     Ins("End") >>)               \* 7

\* one function per division and remainder instruction: lhs and rhs are the arguments
FnI32DivS == Func("i32_div_s", <<"I32", "I32">>, <<"I32">>,
  << InsA("LocalGet", 0), InsA("LocalGet", 1), Ins("I32DivS"), Ins("End") >>)

FnI32DivU == Func("i32_div_u", <<"I32", "I32">>, <<"I32">>,
  << InsA("LocalGet", 0), InsA("LocalGet", 1), Ins("I32DivU"), Ins("End") >>)

FnI32RemS == Func("i32_rem_s", <<"I32", "I32">>, <<"I32">>,
  << InsA("LocalGet", 0), InsA("LocalGet", 1), Ins("I32RemS"), Ins("End") >>)

FnI32RemU == Func("i32_rem_u", <<"I32", "I32">>, <<"I32">>,
  << InsA("LocalGet", 0), InsA("LocalGet", 1), Ins("I32RemU"), Ins("End") >>)

FnI64DivS == Func("i64_div_s", <<"I64", "I64">>, <<"I64">>,
  << InsA("LocalGet", 0), InsA("LocalGet", 1), Ins("I64DivS"), Ins("End") >>)

FnI64DivU == Func("i64_div_u", <<"I64", "I64">>, <<"I64">>,
  << InsA("LocalGet", 0), InsA("LocalGet", 1), Ins("I64DivU"), Ins("End") >>)

FnI64RemS == Func("i64_rem_s", <<"I64", "I64">>, <<"I64">>,
  << InsA("LocalGet", 0), InsA("LocalGet", 1), Ins("I64RemS"), Ins("End") >>)

FnI64RemU == Func("i64_rem_u", <<"I64", "I64">>, <<"I64">>,
  << InsA("LocalGet", 0), InsA("LocalGet", 1), Ins("I64RemU"), Ins("End") >>)

\* a host function instance: a typed callback, named by what it does
HostFunc(name, params, returns, host) ==
  [name |-> name, module |-> 1, params |-> params, returns |-> returns,
   locals |-> <<>>, code |-> <<>>, host |-> host]

\* an opcode outside the executor's match (the sign-extension operators)
FnUnsupported == Func("unsupported", <<>>, <<"I32">>,
  << InsA("I32Const", 1),         \* 0
     Ins("I32Extend8S"),          \* 1
     Ins("End") >>)               \* 2

\* branches whose depth is not below the number of labels of the frame
FnBrDeep == Func("br_deep", <<>>, <<>>,
  << InsT("Block", "Empty"),      \* 0
     InsA("Br", 2),               \* 1
     Ins("End"),                  \* 2
     Ins("End") >>)               \* 3

FnBrIfDeep == Func("br_if_deep", <<"I32">>, <<>>,
  << InsT("Block", "Empty"),      \* 0
     InsA("LocalGet", 0),         \* 1
     InsA("BrIf", 2),             \* 2
     Ins("End"),                  \* 3
     Ins("End") >>)               \* 4

FnBrTableDeep == Func("br_table_deep", <<"I32">>, <<>>,
  << InsT("Block", "Empty"),      \* 0
     InsA("LocalGet", 0),         \* 1
     InsBrTable(<<0, 2>>, 3),     \* 2
     Ins("End"),                  \* 3
     Ins("End") >>)               \* 4

\* local accesses whose index is not below the number of locals of the frame
FnLocalGetOob == Func("local_get_oob", <<"I32">>, <<"I32">>,
  << InsA("LocalGet", 1),         \* 0
     Ins("End") >>)               \* 1

FnLocalSetOob == Func("local_set_oob", <<"I32">>, <<>>,
  << InsA("LocalGet", 0),         \* 0
     InsA("LocalSet", 1),         \* 1
     Ins("End") >>)               \* 2

FnLocalTeeOob == Func("local_tee_oob", <<"I32">>, <<"I32">>,
  << InsA("LocalGet", 0),         \* 0
     InsA("LocalTee", 1),         \* 1
     Ins("End") >>)               \* 2

\* global.set on the two immutable globals (0 imported, 2 defined)
FnGlobalSetImm == Func("global_set_imm", <<"I32">>, <<"I32">>,
  << InsA("LocalGet", 0),         \* 0
     InsA("GlobalSet", 0),        \* 1
     InsA("LocalGet", 0),         \* 2
     InsA("GlobalSet", 2),        \* 3
     InsA("GlobalGet", 2),        \* 4
     Ins("End") >>)               \* 5

\* global.set on the defined mutable global, then global.get of it
FnGlobalSet == Func("global_set", <<"I32">>, <<"I32">>,
  << InsA("LocalGet", 0),         \* 0
     InsA("GlobalSet", 3),        \* 1
     InsA("GlobalGet", 3),        \* 2
     Ins("End") >>)               \* 3

\* a body a validator rejects: an i64 is set into the i32 global 1
FnGlobalSetI64 == Func("global_set_i64", <<>>, <<"I32">>,
  << InsA("I64Const", <<0, 5>>),  \* 0
     InsA("GlobalSet", 1),        \* 1
     InsA("GlobalGet", 1),        \* 2
     Ins("End") >>)               \* 3

\* host functions: one appends its argument plus one and succeeds, one
\* appends a value and then fails
FnHostInc == HostFunc("host_inc", <<"I32">>, <<"I32">>, "inc")

FnHostFail == HostFunc("host_fail", <<"I32">>, <<"I32">>, "fail")

FnCallHost == Func("call_host", <<"I32">>, <<"I32">>,
  << InsA("LocalGet", 0),         \* 0
     InsA("Call", 53),            \* 1
     Ins("End") >>)               \* 2

FnCallHostFail == Func("call_host_fail", <<"I32">>, <<"I32">>,
  << InsA("LocalGet", 0),         \* 0
     InsA("Call", 54),            \* 1
     Ins("End") >>)               \* 2

\* (func $fact (param i32) (result i32) (local i32)
\*   local.get 0  local.tee 1  i32.eqz
\*   if (result i32) i32.const 1
\*   else local.get 0 i32.const 1 i32.sub call $fact local.get 1 i32.mul end)
FnFact ==
  [ Func("fact", <<"I32">>, <<"I32">>,
      << InsA("LocalGet", 0),         \* 0
         InsA("LocalTee", 1),         \* 1
         Ins("I32Eqz"),               \* 2
         InsT("If", "I32"),           \* 3
         InsA("I32Const", 1),         \* 4
         Ins("Else"),                 \* 5
         InsA("LocalGet", 0),         \* 6
         InsA("I32Const", 1),         \* 7
         Ins("I32Sub"),               \* 8
         InsA("Call", 57),            \* 9
         InsA("LocalGet", 1),         \* 10
         Ins("I32Mul"),               \* 11
         Ins("End"),                  \* 12
         Ins("End") >>)               \* 13
    EXCEPT !.locals = <<"I32">> ]

\* a then-branch that reaches its Else with two values over the If label, and
\* an else-branch that nests Block, Loop and If/Else
FnElseNested == Func("else_nested", <<"I32">>, <<"I32">>,
  << InsA("LocalGet", 0),         \* 0
     InsT("If", "I32"),           \* 1
     InsA("I32Const", 1),         \* 2
     InsA("I32Const", 2),         \* 3
     Ins("Else"),                 \* 4
     InsT("Block", "Empty"),      \* 5
     InsT("Loop", "Empty"),       \* 6
     InsA("LocalGet", 0),         \* 7
     InsT("If", "Empty"),         \* 8
     Ins("Nop"),                  \* 9
     Ins("Else"),                 \* 10
     Ins("Nop"),                  \* 11
     Ins("End"),                  \* 12
     Ins("End"),                  \* 13
     Ins("End"),                  \* 14
     InsA("I32Const", 3),         \* 15
     Ins("End"),                  \* 16
     InsA("I32Const", 4),         \* 17
     Ins("I32Add"),               \* 18
     Ins("End") >>)               \* 19

\* a Return three constructs deep, with intermediate values under the result
FnRetDeep == Func("ret_deep", <<"I32">>, <<"I32">>,
  << InsT("Block", "Empty"),      \* 0
     InsT("Loop", "Empty"),       \* 1
     InsA("LocalGet", 0),         \* 2
     InsT("If", "Empty"),         \* 3
     InsA("I32Const", 1),         \* 4
     InsA("I64Const", Int64(2)),  \* 5
     InsA("LocalGet", 0),         \* 6
     Ins("Return"),               \* 7
     Ins("End"),                  \* 8
     Ins("End"),                  \* 9
     Ins("End"),                  \* 10
     InsA("I32Const", 0),         \* 11
     Ins("End") >>)               \* 12

FnCallRetDeep == Func("call_ret_deep", <<"I32">>, <<"I32">>,
  << InsA("I32Const", 5),         \* 0
     InsA("LocalGet", 0),         \* 1
     InsA("Call", 59),            \* 2
     Ins("I32Add"),               \* 3
     Ins("End") >>)               \* 4

\* a Call whose operand lies under the label of the enclosing block
FnCallShort == Func("call_short", <<"I32">>, <<"I32">>,
  << InsA("LocalGet", 0),         \* 0
     InsT("Block", "Empty"),      \* 1
     InsA("Call", 17),            \* 2
     Ins("End"),                  \* 3
     Ins("End") >>)               \* 4

\* a function left by a branch to its Return label, and its caller
FnLeaveBr == Func("leave_br", <<"I32">>, <<"I32">>,
  << InsA("LocalGet", 0),         \* 0
     InsA("Br", 0),               \* 1
     Ins("End") >>)               \* 2

FnCallLeaveBr == Func("call_leave_br", <<"I32">>, <<"I32">>,
  << InsA("I32Const", 5),         \* 0
     InsA("LocalGet", 0),         \* 1
     InsA("Call", 61),            \* 2
     Ins("I32Add"),               \* 3
     Ins("End") >>)               \* 4

\* a function instance of another module
InModule(func, module) == [func EXCEPT !.module = module]

\* the functions of a second module, which imports memory 0 and `ident` of the
\* first: a leaf that reads its global 0, and a function that calls the leaf,
\* calls back into the first module, calls the leaf through its table and
\* loads from the memory
FnM2Leaf == InModule(Func("m2_leaf", <<"I32">>, <<"I32">>,
  << InsA("LocalGet", 0),         \* 0
     InsA("GlobalGet", 0),        \* 1
     Ins("I32Add"),               \* 2
     Ins("End") >>), 2)           \* 3

FnM2Mid == InModule(Func("m2_mid", <<"I32">>, <<"I32">>,
  << InsA("LocalGet", 0),         \* 0
     InsA("Call", 0),             \* 1   m2_leaf
     InsA("Call", 2),             \* 2   ident, of the first module
     InsA("I32Const", 0),         \* 3
     InsA("CallIndirect", 1),     \* 4   type 1 of this module: (i32) -> i32
     InsA("I32Const", 0),         \* 5
     InsA("I32Load", 0),          \* 6
     Ins("I32Add"),               \* 7
     Ins("End") >>), 2)           \* 8

\* a function of the first module that calls into the second and, after the
\* return, calls and reads a global in its own module
FnCrossCall == Func("cross_call", <<"I32">>, <<"I32">>,
  << InsA("LocalGet", 0),         \* 0
     InsA("Call", 65),            \* 1   m2_mid
     InsA("Call", 17),            \* 2   ident
     InsA("GlobalGet", 0),        \* 3
     Ins("I32Add"),               \* 4
     Ins("End") >>)               \* 5

(***************************************************************************)
(* The store: the flat vector of function instances, the module's index    *)
(* spaces, its type table, table 0 and memory 0.                           *)
(***************************************************************************)
StoreFuncs ==
  << FnAdd, FnBrNested, FnLoop, FnLoopNested, FnIfElse, FnIfNoElse, FnBrTable,
     FnCalleeEnd, FnCalleeRet, FnCalleeBr, FnCaller, FnOuter, FnSum, FnVoid,
     FnCallVoid, FnTrap, FnCallTrap, FnIdent, FnBlockExtra, FnBlockExtra2,
     FnBrIf, FnSelect, FnLoadStore, FnLoad, FnGrow, FnCallIndirect,
     FnBrSkip, FnBrToIf, FnRtI32, FnRtI64, FnRtF32, FnRtF64, FnNarrow32,
     FnNarrow64, FnGrowTwice,
     FnI32DivS, FnI32DivU, FnI32RemS, FnI32RemU,
     FnI64DivS, FnI64DivU, FnI64RemS, FnI64RemU,
     FnUnsupported, FnBrDeep, FnBrIfDeep, FnBrTableDeep,
     FnLocalGetOob, FnLocalSetOob, FnLocalTeeOob,
     FnGlobalSetImm, FnGlobalSet, FnGlobalSetI64,
     FnHostInc, FnHostFail, FnCallHost, FnCallHostFail, FnFact, FnElseNested,
     FnRetDeep, FnCallRetDeep, FnLeaveBr, FnCallLeaveBr, FnCallShort,
     FnM2Leaf, FnM2Mid, FnCrossCall >>

ExecAddrs == 1..Len(StoreFuncs)

\* store.func_global(exec_addr)
FuncGlobal(exec_addr) == StoreFuncs[exec_addr]

\* the function index space of a module, as exec addresses.  In the first
\* module local index i is exec address i + 1, the functions of the second
\* module being its imports; the second module defines m2_leaf and m2_mid
\* (exec addresses 65 and 66) and imports ident (18)
ModuleFuncs(module) ==
  CASE module = 1 -> [e \in ExecAddrs |-> e]
    [] module = 2 -> << 65, 66, 18 >>
    [] OTHER -> <<>>

ModuleFuncCount(module) == Len(ModuleFuncs(module))

FuncAddr(module, index) == [module |-> module, index |-> index]

\* store.func(addr): the instance and its exec address, or nothing
StoreFunc(addr) ==
  IF addr.index >= 0 /\ addr.index < ModuleFuncCount(addr.module)
  THEN <<ModuleFuncs(addr.module)[addr.index + 1]>>
  ELSE <<>>

\* the type table of a module; the second module declares the same two
\* types in the other order
ModuleTypes(module) ==
  IF module = 1
  THEN << [params |-> <<"I32">>, returns |-> <<"I32">>],
          [params |-> <<>>, returns |-> <<>>] >>
  ELSE << [params |-> <<>>, returns |-> <<>>],
          [params |-> <<"I32">>, returns |-> <<"I32">>] >>

\* store.module(module_index).get_type(index)
GetType(module, index) == ModuleTypes(module)[index + 1]

\* eq_func_type
EqFuncType(f, ty) == f.params = ty.params /\ f.returns = ty.returns

\* table 0 after instantiation: two functions of differing types, one empty slot
StoreTable == << <<FuncAddr(1, 7)>>, <<FuncAddr(1, 15)>>, <<>> >>

\* store.table(TableAddr(module, 0)): table 0 of the second module holds m2_leaf
ModuleTable(module) ==
  IF module = 1 THEN StoreTable ELSE << <<FuncAddr(2, 0)>>, <<>> >>

NoTrap == [name |-> "None", tys |-> <<>>, n |-> 0]
TrapUnreachable == [name |-> "Unreachable", tys |-> <<>>, n |-> 0]
TrapStack == [name |-> "Stack", tys |-> <<>>, n |-> 0]
TrapMemory == [name |-> "Memory", tys |-> <<>>, n |-> 0]
TrapUndefinedFunc(n) == [name |-> "UndefinedFunc", tys |-> <<>>, n |-> n]
TrapUnexpectedStackValueType(expected, actual) ==
  [name |-> "UnexpectedStackValueType", tys |-> <<expected, actual>>, n |-> 0]
TrapDirectCallTypeMismatch == [name |-> "DirectCallTypeMismatch", tys |-> <<>>, n |-> 0]
TrapIndirectCallTypeMismatch == [name |-> "IndirectCallTypeMismatch", tys |-> <<>>, n |-> 0]
TrapTableOutOfBounds(n) == [name |-> "Table.AccessOutOfBounds", tys |-> <<>>, n |-> n]
TrapTableUninitialized(n) == [name |-> "Table.UninitializedElement", tys |-> <<>>, n |-> n]
\* the Trap a failing host callback hands to `?` in invoke
TrapHost == [name |-> "Host", tys |-> <<>>, n |-> 0]

(***************************************************************************)
(* The globals of the module.  A global instance is a value and a          *)
(* mutability flag; globals 0 and 1 are imported, 2 and 3 are defined by   *)
(* the module itself.                                                      *)
(***************************************************************************)
StoreGlobals ==
  << [ty |-> "I32", mutable |-> FALSE, imported |-> TRUE],
     [ty |-> "I32", mutable |-> TRUE, imported |-> TRUE],
     [ty |-> "I32", mutable |-> FALSE, imported |-> FALSE],
     [ty |-> "I32", mutable |-> TRUE, imported |-> FALSE] >>

\* the values of the globals after instantiation
InitialGlobals == << VI32(7), VI32(8), VI32(11), VI32(0) >>

\* the global index space of a module, as positions in the store's globals:
\* the second module imports globals 2 and 3 of the first as its globals 0 and 1
GlobalIndex(module, index) == IF module = 1 THEN index ELSE index + 2

\* store.global(addr).borrow().value()
GlobalValue(gs, index) == gs[index + 1]

\* store.global(addr).borrow_mut().set_value(value)
GlobalSetValue(gs, index, value) == [gs EXCEPT ![index + 1] = value]

\* HostFuncBody::call: what the callback appended to `results` and whether it
\* returned Ok
HostCall(func, args) ==
  CASE func.host = "inc" /\ args[1].ty = "I32" ->
         [ok |-> TRUE, results |-> <<VI32(WrappingAdd32(args[1].v, 1))>>]
    [] OTHER -> [ok |-> FALSE, results |-> <<VI32(0)>>]

(***************************************************************************)
(* The table instance (table.rs).  An Option is a sequence: None is <<>>,  *)
(* Some(x) is <<x>>.  usize ends where the integers of the model end, so   *)
(* that checked_add has an overflow to report.                             *)
(***************************************************************************)
UsizeMax == MaxI32

\* table::Error
AccessOutOfBounds(addr, size) ==
  [name |-> "AccessOutOfBounds", addr |-> addr, size |-> size]
UninitializedElement(index) ==
  [name |-> "UninitializedElement", addr |-> <<index>>, size |-> 0]
NoTableError == [name |-> "None", addr |-> <<>>, size |-> 0]

\* usize::checked_add
CheckedAdd(a, b) == IF a > UsizeMax - b THEN <<>> ELSE <<a + b>>

\* DefinedTableInstance::new
TableNew(initial, maximum) ==
  [buffer |-> [i \in 1..initial |-> <<>>], max |-> maximum]

\* DefinedTableInstance::buffer_len
BufferLen(t) == Len(t.buffer)

\* an initialize that writes the slots it can reach before it reports the
\* segment as out of bounds
InitializeWritesThenChecks(t, offset, data) ==
  LET max_addr == CheckedAdd(offset, Len(data))
      written == [t EXCEPT !.buffer =
                    [i \in 1..Len(t.buffer) |->
                       IF i - 1 >= offset /\ i - 1 - offset < Len(data)
                       THEN <<data[i - offset]>> ELSE t.buffer[i]]]
  IN IF max_addr = <<>>
     THEN [ok |-> FALSE, err |-> AccessOutOfBounds(<<>>, BufferLen(t)), table |-> t]
     ELSE IF max_addr[1] > BufferLen(t)
     THEN [ok |-> FALSE, err |-> AccessOutOfBounds(max_addr, BufferLen(t)), table |-> written]
     ELSE [ok |-> TRUE, err |-> NoTableError, table |-> written]

\* DefinedTableInstance::initialize: the bounds check, then the writes
Initialize(t, offset, data) ==
  LET max_addr == CheckedAdd(offset, Len(data))
  IN IF max_addr = <<>>
     THEN [ok |-> FALSE, err |-> AccessOutOfBounds(<<>>, BufferLen(t)), table |-> t]
     ELSE IF max_addr[1] > BufferLen(t)
     THEN [ok |-> FALSE, err |-> AccessOutOfBounds(max_addr, BufferLen(t)), table |-> t]
     ELSE [ok |-> TRUE, err |-> NoTableError,
           table |-> [t EXCEPT !.buffer =
                        [i \in 1..Len(t.buffer) |->
                           IF i - 1 >= offset /\ i - 1 < offset + Len(data)
                           THEN <<data[i - offset]>> ELSE t.buffer[i]]]]

\* a get_at that reports an empty slot as out of bounds
GetAtEmptyIsOutOfBounds(t, index) ==
  IF index < 0 \/ index >= BufferLen(t) \/ t.buffer[index + 1] = <<>>
  THEN [ok |-> FALSE, addr |-> FuncAddr(0, 0),
        err |-> AccessOutOfBounds(<<index>>, BufferLen(t))]
  ELSE [ok |-> TRUE, addr |-> t.buffer[index + 1][1], err |-> NoTableError]

\* DefinedTableInstance::get_at.  A negative index is what the executor's
\* `as usize` makes of a negative i32: an index beyond every table.
GetAt(t, index) ==
  IF index < 0 \/ index >= BufferLen(t)
  THEN [ok |-> FALSE, addr |-> FuncAddr(0, 0),
        err |-> AccessOutOfBounds(<<index>>, BufferLen(t))]
  ELSE IF t.buffer[index + 1] = <<>>
  THEN [ok |-> FALSE, addr |-> FuncAddr(0, 0), err |-> UninitializedElement(index)]
  ELSE [ok |-> TRUE, addr |-> t.buffer[index + 1][1], err |-> NoTableError]

\* get_at as the executor sees it: the error wrapped in Trap::Table
TableGetAt(buffer, index) ==
  LET r == GetAt([buffer |-> buffer, max |-> <<>>], index)
  IN [ok |-> r.ok, addr |-> r.addr,
      trap |-> IF r.ok THEN NoTrap
               ELSE IF r.err.name = "AccessOutOfBounds" THEN TrapTableOutOfBounds(index)
               ELSE TrapTableUninitialized(index)]

(***************************************************************************)
(* Linear memory: a page count, a maximum, and the bytes that differ from  *)
(* zero (every byte of a fresh page is zero).                              *)
(***************************************************************************)
PageSize == 65536
InitialPages == 1
MaximumPages == 2

\* the bytes the data segments of the module put at both ends of the first
\* page when it is instantiated
DataAddrs == (0..7) \cup ((PageSize - 8)..(PageSize - 1))

InitialData == [a \in DataAddrs |-> 16 + (a % 16) * 15]

MemLen(m) == m.pages * PageSize

ByteAt(m, addr) == IF addr \in DOMAIN m.bytes THEN m.bytes[addr] ELSE 0

\* the effective address (base_addr as usize) + offset.  The cast of a
\* negative i32 sign-extends, to 2^64 + base; the sum then overflows usize
\* when base + offset >= 0: a build with overflow checks panics, any other wraps
\* to base + offset.  -1 stands for an address of 2^31 or more, which lies
\* beyond every memory of the model, AddrOverflow for the panic.
AddrOverflow == -2

EffectiveAddr(base, offset, checks) ==
  IF base >= 0
  THEN (IF base > MaxI32 - offset THEN -1 ELSE base + offset)
  ELSE IF base + offset < 0 THEN -1
  ELSE IF checks THEN AddrOverflow
  ELSE base + offset

InBounds(m, addr, width) == addr >= 0 /\ addr <= MemLen(m) - width

\* little-endian bytes of a 32-bit pattern
IntoLE32(v) ==
  << v % 256, (v \div 256) % 256, (v \div 65536) % 256, (v \div 16777216) % 256 >>

FromLE32(b) ==
  b[1] + 256 * b[2] + 65536 * b[3]
    + 16777216 * (IF b[4] >= 128 THEN b[4] - 256 ELSE b[4])

\* size_of::<T>() for the four value types
SizeOf(ty) == IF ty \in {"I32", "F32"} THEN 4 ELSE 8

\* into_le: the little-endian bytes of a value
IntoLE(val) ==
  IF SizeOf(val.ty) = 4 THEN IntoLE32(val.v) ELSE IntoLE32(val.v) \o IntoLE32(val.hi)

\* from_le, then into Value: the value of type ty with these bytes
FromLE(ty, b) ==
  IF SizeOf(ty) = 4
  THEN [ty |-> ty, v |-> FromLE32(b), hi |-> 0]
  ELSE [ty |-> ty, v |-> FromLE32(SubSeq(b, 1, 4)), hi |-> FromLE32(SubSeq(b, 5, 8))]

\* the narrow types of load_extend: their width and signedness
NarrowWidth(from) ==
  CASE from \in {"i8", "u8"} -> 1
    [] from \in {"i16", "u16"} -> 2
    [] OTHER -> 4

NarrowSigned(from) == from \in {"i8", "i16", "i32"}

\* from_le of a narrow type followed by extend_into: sign or zero extension
ExtendInto(from, to, b) ==
  LET w == NarrowWidth(from)
      neg == NarrowSigned(from) /\ b[w] >= 128
      lo == CASE w = 1 -> IF neg THEN b[1] - 256 ELSE b[1]
              [] w = 2 -> IF neg THEN b[1] + 256 * b[2] - 65536 ELSE b[1] + 256 * b[2]
              [] OTHER -> FromLE32(b)
  IN [ty |-> to, v |-> lo, hi |-> IF to = "I64" /\ neg THEN -1 ELSE 0]

(***************************************************************************)
(* Integer division (value.rs).  A 32-bit pattern is held as the signed    *)
(* integer with that pattern and a 64-bit one as two halves, so division   *)
(* is done on the two's complement bits, least significant first.          *)
(***************************************************************************)
TrapIntegerDivByZero == [name |-> "Value.IntegerDivByZero", tys |-> <<>>, n |-> 0]
TrapIntegerOverflow == [name |-> "Value.IntegerOverflow", tys |-> <<>>, n |-> 0]

Bits32(x) ==
  [i \in 1..32 |-> IF i = 32 THEN (IF x < 0 THEN 1 ELSE 0) ELSE (x \div (2 ^ (i - 1))) % 2]

ValueBits(val) ==
  IF SizeOf(val.ty) = 4 THEN Bits32(val.v) ELSE Bits32(val.v) \o Bits32(val.hi)

RECURSIVE BitsSum(_, _)
BitsSum(b, i) == IF i = 0 THEN 0 ELSE b[i] * (2 ^ (i - 1)) + BitsSum(b, i - 1)

Pattern32(b) == IF b[32] = 1 THEN (BitsSum(b, 31) - MaxI32) - 1 ELSE BitsSum(b, 31)

BitsValue(ty, b) ==
  IF SizeOf(ty) = 4 THEN [ty |-> ty, v |-> Pattern32(b), hi |-> 0]
  ELSE [ty |-> ty, v |-> Pattern32(SubSeq(b, 1, 32)), hi |-> Pattern32(SubSeq(b, 33, 64))]

BitsZero(n) == [i \in 1..n |-> 0]

BitsOnes(n) == [i \in 1..n |-> 1]

\* 2^(n-1), the pattern of the least signed value
BitsMin(n) == [i \in 1..n |-> IF i = n THEN 1 ELSE 0]

\* a < b as unsigned numbers, comparing from bit i down
RECURSIVE BitsLess(_, _, _)
BitsLess(a, b, i) ==
  IF i = 0 THEN FALSE
  ELSE IF a[i] # b[i] THEN a[i] < b[i]
  ELSE BitsLess(a, b, i - 1)

\* a - b modulo 2^Len(a), from bit i up with a borrow
RECURSIVE BitsSub(_, _, _, _)
BitsSub(a, b, i, borrow) ==
  IF i > Len(a) THEN <<>>
  ELSE <<(a[i] - b[i] - borrow) % 2>>
         \o BitsSub(a, b, i + 1, IF a[i] - b[i] - borrow < 0 THEN 1 ELSE 0)

\* wrapping_neg
BitsNeg(a) == BitsSub(BitsZero(Len(a)), a, 1, 0)

\* one step of long division: the remainder shifted left with bit i of n
\* brought in, and whether the divisor goes into it
DivProbe(n, d, i, r) ==
  CHOOSE x \in { [s |-> s, ge |-> ~BitsLess(s, d, Len(s))] :
                   s \in { <<n[i]>> \o SubSeq(r, 1, Len(r) - 1) } } : TRUE

\* long division of n by d # 0 over the bits hi down to lo, starting from the
\* remainder r; r and d are one bit wider than n.  The range is halved
\* rather than walked, which keeps the evaluation shallow.
RECURSIVE BitsDivMod(_, _, _, _, _)
BitsDivMod(n, d, hi, lo, r) ==
  IF hi = lo
  THEN CHOOSE out \in
         { [q |-> <<IF x.ge THEN 1 ELSE 0>>,
            r |-> IF x.ge THEN BitsSub(x.s, d, 1, 0) ELSE x.s] :
             x \in { DivProbe(n, d, hi, r) } } : TRUE
  ELSE CHOOSE out \in
         { CHOOSE o \in { [q |-> low.q \o up.q, r |-> low.r] :
                            low \in { BitsDivMod(n, d, (hi + lo - 1) \div 2, lo, up.r) } } : TRUE :
             up \in { BitsDivMod(n, d, hi, (hi + lo + 1) \div 2, r) } } : TRUE

\* quotient and remainder of unsigned patterns
BitsDivU(a, b) ==
  CHOOSE out \in
    { [q |-> m.q, r |-> SubSeq(m.r, 1, Len(a))] :
        m \in { BitsDivMod(a, Append(b, 0), Len(a), 1, BitsZero(Len(a) + 1)) } } : TRUE

BitsIsNeg(a) == a[Len(a)] = 1

BitsAbs(a) == IF BitsIsNeg(a) THEN BitsNeg(a) ELSE a

\* quotient truncated toward zero and remainder with the sign of the
\* dividend, both wrapping
BitsDivS(a, b) ==
  CHOOSE out \in
    { [q |-> IF BitsIsNeg(a) # BitsIsNeg(b) THEN BitsNeg(m.q) ELSE m.q,
       r |-> IF BitsIsNeg(a) THEN BitsNeg(m.r) ELSE m.r] :
        m \in { BitsDivU(BitsAbs(a), BitsAbs(b)) } } : TRUE

ValOk(val) == [ok |-> TRUE, val |-> val, trap |-> NoTrap]
ValErr(t) == [ok |-> FALSE, val |-> NoValue, trap |-> t]

\* I32::try_wrapping_div, I64::try_wrapping_div
TryWrappingDivS(lhs, rhs) ==
  LET a == ValueBits(lhs)
      b == ValueBits(rhs)
  IN IF b = BitsZero(Len(b)) THEN ValErr(TrapIntegerDivByZero)
     ELSE IF a = BitsMin(Len(a)) /\ b = BitsOnes(Len(b)) THEN ValErr(TrapIntegerOverflow)
     ELSE ValOk(BitsValue(lhs.ty, BitsDivS(a, b).q))

\* U32::try_wrapping_div, U64::try_wrapping_div
TryWrappingDivU(lhs, rhs) ==
  LET a == ValueBits(lhs)
      b == ValueBits(rhs)
  IN IF b = BitsZero(Len(b)) THEN ValErr(TrapIntegerDivByZero)
     ELSE ValOk(BitsValue(lhs.ty, BitsDivU(a, b).q))

\* I32::try_wrapping_rem, I64::try_wrapping_rem
TryWrappingRemS(lhs, rhs) ==
  LET a == ValueBits(lhs)
      b == ValueBits(rhs)
  IN IF b = BitsZero(Len(b)) THEN ValErr(TrapIntegerDivByZero)
     ELSE ValOk(BitsValue(lhs.ty, BitsDivS(a, b).r))

\* U32::try_wrapping_rem, U64::try_wrapping_rem
TryWrappingRemU(lhs, rhs) ==
  LET a == ValueBits(lhs)
      b == ValueBits(rhs)
  IN IF b = BitsZero(Len(b)) THEN ValErr(TrapIntegerDivByZero)
     ELSE ValOk(BitsValue(lhs.ty, BitsDivU(a, b).r))

\* the closure an arm hands to try_binop
TryWrapping(f, lhs, rhs) ==
  CASE f = "div_s" -> TryWrappingDivS(lhs, rhs)
    [] f = "div_u" -> TryWrappingDivU(lhs, rhs)
    [] f = "rem_s" -> TryWrappingRemS(lhs, rhs)
    [] OTHER -> TryWrappingRemU(lhs, rhs)

\* MemoryInstance::load_as: width bytes at addr
MemLoadBytes(m, addr, width) == [i \in 1..width |-> ByteAt(m, addr + i - 1)]

\* MemoryInstance::store: write the buffer at addr
MemStoreBytes(m, addr, buf) ==
  [m EXCEPT !.bytes =
     [a \in (DOMAIN m.bytes) \cup {addr + i - 1 : i \in 1..Len(buf)} |->
        IF a >= addr /\ a < addr + Len(buf) THEN buf[a - addr + 1] ELSE m.bytes[a]]]

\* MemoryInstance::grow: no partial growth
MemCanGrow(m, n) == n >= 0 /\ n <= m.max - m.pages

MemGrow(m, n) == [m EXCEPT !.pages = m.pages + n]

(***************************************************************************)
(* The executor.  The machine state st is [pc, stack, mem, checks], checks *)
(* telling whether the build traps integer overflow (a debug build) or     *)
(* wraps (a release build); every helper returns the signal or trap of the *)
(* step together with the state it leaves.  early marks a return taken by  *)
(* `?` inside execute_inst's match, which leaves the function before the   *)
(* termination check.                                                      *)
(***************************************************************************)
ProgramCounter(module, exec_addr, inst) ==
  [module |-> module, func |-> exec_addr, inst |-> inst]

Ok(st) == [sig |-> "Next", trap |-> NoTrap, st |-> st, early |-> FALSE]
OkSignal(st, sig) == [sig |-> sig, trap |-> NoTrap, st |-> st, early |-> FALSE]
Err(st, t) == [sig |-> "Trap", trap |-> t, st |-> st, early |-> FALSE]
ErrQ(st, t) == [sig |-> "Trap", trap |-> t, st |-> st, early |-> TRUE]
Panic(st) == [sig |-> "Panic", trap |-> NoTrap, st |-> st, early |-> TRUE]
Early(r) == IF r.sig = "Trap" THEN [r EXCEPT !.early = TRUE] ELSE r

WithStack(st, s) == [st EXCEPT !.stack = s]

\* current_func_insts: the instructions of the function the pc is in
CurrentFuncInsts(st) == FuncGlobal(st.pc.func).code

\* the arity of a block type: 0 for the empty type, 1 otherwise
BlockArity(ty) == IF ty = "Empty" THEN 0 ELSE 1

\* pop_as::<T>: pop a value and check its type tag
PopAs(s, ty) ==
  LET p == PopValue(s)
  IN IF ~p.ok THEN [ok |-> FALSE, v |-> 0, stack |-> p.stack, trap |-> TrapStack]
     ELSE IF p.val.ty # ty
     THEN [ok |-> FALSE, v |-> 0, stack |-> p.stack,
           trap |-> TrapUnexpectedStackValueType(ty, p.val.ty)]
     ELSE [ok |-> TRUE, v |-> p.val.v, stack |-> p.stack, trap |-> NoTrap]

\* the Interceptor's invoke_func: a breakpoint on the function, or Next
InterceptorInvokeFunc(bps, name) == IF name \in bps THEN "Breakpoint" ELSE "Next"

\* the record of one call of invoke_func: its argument, and the pc and the
\* stack of the executor at the time of the call
InterceptorCall(name, at, s) == [name |-> name, pc |-> at, stack |-> s]

\* CallFrame::new_from_func: parameters, then zero-initialized locals
NewFrame(exec_addr, func, args, ret_pc) ==
  [func |-> exec_addr, module |-> func.module,
   locals |-> args \o [i \in 1..Len(func.locals) |-> [ty |-> func.locals[i], v |-> 0, hi |-> 0]],
   ret_pc |-> ret_pc]

\* a scan that takes the first Else it meets, whatever construct it belongs to
RECURSIVE IfScanAnyElse(_, _, _)
IfScanAnyElse(code, index, depth) ==
  IF index >= Len(code) THEN -1
  ELSE LET kind == code[index + 1].op
           d == IF kind = "End" THEN depth - 1
                ELSE IF kind \in {"Block", "If", "Loop"} THEN depth + 1
                ELSE depth
       IN IF kind = "Else" THEN index + 1
          ELSE IF d = 0 THEN index
          ELSE IfScanAnyElse(code, index + 1, d)

\* the forward scan of If with a zero condition: the index the pc lands on,
\* -1 when the scan runs off the instruction vector
RECURSIVE IfScan(_, _, _)
IfScan(code, index, depth) ==
  IF index >= Len(code) THEN -1
  ELSE LET kind == code[index + 1].op
           d == IF kind = "End" THEN depth - 1
                ELSE IF kind \in {"Block", "If", "Loop"} THEN depth + 1
                ELSE depth
       IN IF kind = "Else" /\ depth = 1 THEN index + 1
          ELSE IF d = 0 THEN index
          ELSE IfScan(code, index + 1, d)

\* a scan that stops on the End it was looking for, not after it
RECURSIVE BranchScanStopsOnEnd(_, _, _)
BranchScanStopsOnEnd(code, index, depth) ==
  IF index >= Len(code) THEN -1
  ELSE LET kind == code[index + 1].op
           d == IF kind = "End" THEN depth - 1
                ELSE IF kind \in {"Block", "If", "Loop"} THEN depth + 1
                ELSE depth
       IN IF d = 0 THEN index ELSE BranchScanStopsOnEnd(code, index + 1, d)

\* the forward scan of a branch to a Block or If label
RECURSIVE BranchScan(_, _, _)
BranchScan(code, index, depth) ==
  IF index >= Len(code) THEN -1
  ELSE LET kind == code[index + 1].op
           d == IF kind = "End" THEN depth - 1
                ELSE IF kind \in {"Block", "If", "Loop"} THEN depth + 1
                ELSE depth
       IN IF d = 0 THEN index + 1 ELSE BranchScan(code, index + 1, d)

\* depth + 1 times: drain the values, pop the label
RECURSIVE PopScopes(_, _)
PopScopes(s, n) ==
  IF n = 0 THEN [ok |-> TRUE, stack |-> s]
  ELSE LET l == PopLabel(PopWhileValue(s).stack)
       IN IF ~l.ok THEN [ok |-> FALSE, stack |-> l.stack]
          ELSE PopScopes(l.stack, n - 1)

\* do_return that pops the frame and pushes no result
DoReturnDropsResults(st) ==
  IF ~HasFrame(st.stack) THEN Err(st, TrapStack)
  ELSE LET ret_pc == CurrentFrame(st.stack).ret_pc
           f == PopFrame(PopWhileNotActivation(st.stack))
       IN Ok([st EXCEPT !.stack = f.stack,
                        !.pc = IF ret_pc # <<>> THEN ret_pc[1] ELSE @])

\* a do_return that unwinds to the activation and leaves it on the stack
DoReturnKeepsFrame(st) ==
  IF ~HasFrame(st.stack) THEN Err(st, TrapStack)
  ELSE LET ret_pc == CurrentFrame(st.stack).ret_pc
           arity == Len(FuncGlobal(st.pc.func).returns)
           p == PopValues(st.stack, arity)
       IN IF ~p.ok THEN Err(WithStack(st, p.stack), TrapStack)
          ELSE Ok([st EXCEPT !.stack = PushValues(PopWhileNotActivation(p.stack), p.vals),
                             !.pc = IF ret_pc # <<>> THEN ret_pc[1] ELSE @])

\* Executor::do_return
DoReturn(st) ==
  IF ~HasFrame(st.stack) THEN Err(st, TrapStack)
  ELSE LET ret_pc == CurrentFrame(st.stack).ret_pc
           arity == Len(FuncGlobal(st.pc.func).returns)
           p == PopValues(st.stack, arity)
       IN IF ~p.ok THEN Err(WithStack(st, p.stack), TrapStack)
          ELSE LET f == PopFrame(PopWhileNotActivation(p.stack))
               IN IF ~f.ok THEN Err(WithStack(st, f.stack), TrapStack)
                  ELSE Ok([st EXCEPT !.stack = PushValues(f.stack, p.vals),
                                     !.pc = IF ret_pc # <<>> THEN ret_pc[1] ELSE @])

\* a branch that, at a Return label, leaves the return to the function's End
BranchLeavesReturnToEnd(st, depth) ==
  IF ~HasFrame(st.stack) THEN Err(st, TrapStack)
  ELSE LET labels == CurrentFrameLabels(st.stack)
       IN IF depth + 1 > Len(labels) THEN Panic(st)
          ELSE LET label == labels[Len(labels) - depth]
                   arity == LabelArity(label)
                   p == PopValues(st.stack, arity)
               IN IF ~p.ok THEN Err(WithStack(st, p.stack), TrapStack)
                  ELSE LET u == PopScopes(p.stack, depth + 1)
                       IN IF ~u.ok THEN Err(WithStack(st, u.stack), TrapStack)
                          ELSE LET st1 == WithStack(st, PushValues(u.stack, Reverse(p.vals)))
                               IN CASE label.kind = "Loop" ->
                                         Ok([st1 EXCEPT !.pc.inst = label.hdr])
                                    [] label.kind = "Return" -> Ok(st1)
                                    [] OTHER ->
                                         LET to == BranchScan(CurrentFuncInsts(st1),
                                                              st1.pc.inst, depth + 1)
                                         IN IF to = -1 THEN Panic(st1)
                                            ELSE Ok([st1 EXCEPT !.pc.inst = to])

\* Executor::branch
Branch(st, depth) ==
  IF ~HasFrame(st.stack) THEN Err(st, TrapStack)
  ELSE LET labels == CurrentFrameLabels(st.stack)
       IN IF depth + 1 > Len(labels) THEN Panic(st)
          ELSE LET label == labels[Len(labels) - depth]
                   arity == LabelArity(label)
                   p == PopValues(st.stack, arity)
               IN IF ~p.ok THEN Err(WithStack(st, p.stack), TrapStack)
                  ELSE LET u == PopScopes(p.stack, depth + 1)
                       IN IF ~u.ok THEN Err(WithStack(st, u.stack), TrapStack)
                          ELSE LET st1 == WithStack(st, PushValues(u.stack, Reverse(p.vals)))
                               IN CASE label.kind = "Loop" ->
                                         Ok([st1 EXCEPT !.pc.inst = label.hdr])
                                    [] label.kind = "Return" -> DoReturn(st1)
                                    [] OTHER ->
                                         LET to == BranchScan(CurrentFuncInsts(st1),
                                                              st1.pc.inst, depth + 1)
                                         IN IF to = -1 THEN Panic(st1)
                                            ELSE Ok([st1 EXCEPT !.pc.inst = to])

\* an invoke that saves the pc of the Call itself as ret_pc
InvokeSavesCallPc(st, addr, bps) ==
  LET r == StoreFunc(addr)
  IN IF r = <<>> THEN Err(st, TrapUndefinedFunc(addr.index))
     ELSE LET exec_addr == r[1]
              func == FuncGlobal(exec_addr)
              p == PopValues(st.stack, Len(func.params))
          IN IF ~p.ok THEN Err(WithStack(st, p.stack), TrapDirectCallTypeMismatch)
             ELSE IF func.host # "none"
             THEN LET h == HostCall(func, Reverse(p.vals))
                  IN IF ~h.ok THEN Err(WithStack(st, p.stack), TrapHost)
                     ELSE IF Len(h.results) # Len(func.returns)
                     THEN Panic(WithStack(st, p.stack))
                     ELSE Ok(WithStack(st, PushValues(p.stack, h.results)))
             ELSE LET frame == NewFrame(exec_addr, func, Reverse(p.vals), <<[st.pc EXCEPT !.inst = @ - 1]>>)
                      s1 == PushLabel(SetFrame(p.stack, frame),
                                      LabelReturn(Len(func.returns)))
                      pc1 == ProgramCounter(func.module, exec_addr, 0)
                  IN OkSignal([st EXCEPT !.stack = s1, !.pc = pc1,
                                         !.icpt = Append(@, InterceptorCall(func.name, pc1, s1))],
                              InterceptorInvokeFunc(bps, func.name))

\* an invoke that calls the interceptor first, before the callee's frame and
\* label are pushed and the pc is moved
InvokeInterceptsFirst(st, addr, bps) ==
  LET r == StoreFunc(addr)
  IN IF r = <<>> THEN Err(st, TrapUndefinedFunc(addr.index))
     ELSE LET exec_addr == r[1]
              func == FuncGlobal(exec_addr)
              p == PopValues(st.stack, Len(func.params))
          IN IF ~p.ok THEN Err(WithStack(st, p.stack), TrapDirectCallTypeMismatch)
             ELSE IF func.host # "none"
             THEN LET h == HostCall(func, Reverse(p.vals))
                  IN IF ~h.ok THEN Err(WithStack(st, p.stack), TrapHost)
                     ELSE IF Len(h.results) # Len(func.returns)
                     THEN Panic(WithStack(st, p.stack))
                     ELSE Ok(WithStack(st, PushValues(p.stack, h.results)))
             ELSE LET frame == NewFrame(exec_addr, func, Reverse(p.vals), <<st.pc>>)
                      s1 == PushLabel(SetFrame(p.stack, frame),
                                      LabelReturn(Len(func.returns)))
                      pc1 == ProgramCounter(func.module, exec_addr, 0)
                  IN OkSignal([st EXCEPT !.stack = s1, !.pc = pc1,
                                         !.icpt = Append(@, InterceptorCall(func.name, st.pc, p.stack))],
                              InterceptorInvokeFunc(bps, func.name))

\* an invoke whose Return label carries the number of parameters of the callee
InvokeLabelsWithParams(st, addr, bps) ==
  LET r == StoreFunc(addr)
  IN IF r = <<>> THEN Err(st, TrapUndefinedFunc(addr.index))
     ELSE LET exec_addr == r[1]
              func == FuncGlobal(exec_addr)
              p == PopValues(st.stack, Len(func.params))
          IN IF ~p.ok THEN Err(WithStack(st, p.stack), TrapDirectCallTypeMismatch)
             ELSE IF func.host # "none"
             THEN LET h == HostCall(func, Reverse(p.vals))
                  IN IF ~h.ok THEN Err(WithStack(st, p.stack), TrapHost)
                     ELSE IF Len(h.results) # Len(func.returns)
                     THEN Panic(WithStack(st, p.stack))
                     ELSE Ok(WithStack(st, PushValues(p.stack, h.results)))
             ELSE LET frame == NewFrame(exec_addr, func, Reverse(p.vals), <<st.pc>>)
                      s1 == PushLabel(SetFrame(p.stack, frame),
                                      LabelReturn(Len(func.params)))
                      pc1 == ProgramCounter(func.module, exec_addr, 0)
                  IN OkSignal([st EXCEPT !.stack = s1, !.pc = pc1,
                                         !.icpt = Append(@, InterceptorCall(func.name, pc1, s1))],
                              InterceptorInvokeFunc(bps, func.name))

\* Executor::invoke: the interceptor is called once the callee's frame and
\* Return label are on the stack and the pc is at the callee's first instruction
Invoke(st, addr, bps) ==
  LET r == StoreFunc(addr)
  IN IF r = <<>> THEN Err(st, TrapUndefinedFunc(addr.index))
     ELSE LET exec_addr == r[1]
              func == FuncGlobal(exec_addr)
              p == PopValues(st.stack, Len(func.params))
          IN IF ~p.ok THEN Err(WithStack(st, p.stack), TrapDirectCallTypeMismatch)
             ELSE IF func.host # "none"
             THEN LET h == HostCall(func, Reverse(p.vals))
                  IN IF ~h.ok THEN Err(WithStack(st, p.stack), TrapHost)
                     ELSE IF Len(h.results) # Len(func.returns)
                     THEN Panic(WithStack(st, p.stack))
                     ELSE Ok(WithStack(st, PushValues(p.stack, h.results)))
             ELSE LET frame == NewFrame(exec_addr, func, Reverse(p.vals), <<st.pc>>)
                      s1 == PushLabel(SetFrame(p.stack, frame),
                                      LabelReturn(Len(func.returns)))
                      pc1 == ProgramCounter(func.module, exec_addr, 0)
                  IN OkSignal([st EXCEPT !.stack = s1, !.pc = pc1,
                                         !.icpt = Append(@, InterceptorCall(func.name, pc1, s1))],
                              InterceptorInvokeFunc(bps, func.name))

(***************************************************************************)
(* The arms of execute_inst's match.  st is the state after the pc has     *)
(* been advanced past the instruction.                                     *)
(***************************************************************************)
ExecBlock(st, inst) ==
  Ok(WithStack(st, PushLabel(st.stack, LabelBlock(BlockArity(inst.ty)))))

\* a Loop label that remembers the first instruction of the body
ExecLoopStartsAtBody(st, inst) ==
  Ok(WithStack(st, PushLabel(st.stack, LabelLoop(st.pc.inst))))

ExecLoop(st, inst) ==
  Ok(WithStack(st, PushLabel(st.stack, LabelLoop(st.pc.inst - 1))))

\* an If that pushes its label only when it enters the then-branch
ExecIfLabelsThenOnly(st, inst) ==
  LET c == PopAs(st.stack, "I32")
  IN IF ~c.ok THEN ErrQ(WithStack(st, c.stack), c.trap)
     ELSE IF c.v = 0
          THEN LET st0 == WithStack(st, c.stack)
                   to == IfScan(CurrentFuncInsts(st0), st0.pc.inst, 1)
               IN IF to = -1 THEN Panic(st0) ELSE Ok([st0 EXCEPT !.pc.inst = to])
          ELSE Ok(WithStack(st, PushLabel(c.stack, LabelIf(BlockArity(inst.ty)))))

ExecIf(st, inst) ==
  LET c == PopAs(st.stack, "I32")
  IN IF ~c.ok THEN ErrQ(WithStack(st, c.stack), c.trap)
     ELSE LET st1 == WithStack(st, PushLabel(c.stack, LabelIf(BlockArity(inst.ty))))
          IN IF c.v = 0
             THEN LET to == IfScan(CurrentFuncInsts(st1), st1.pc.inst, 1)
                  IN IF to = -1 THEN Panic(st1) ELSE Ok([st1 EXCEPT !.pc.inst = to])
             ELSE Ok(st1)

\* an Else that is stepped over: execution runs on into the else-branch
ExecElseFallsThrough(st, inst) == Ok(st)

ExecElse(st, inst) == Branch(st, 0)

\* End at function level: the end of a function is reached without a jump
ExecEndFunc(st) ==
  LET ret_pc == CurrentFrame(st.stack).ret_pc
      arity == Len(FuncGlobal(st.pc.func).returns)
      p == PopValues(st.stack, arity)
  IN IF ~p.ok THEN ErrQ(WithStack(st, p.stack), TrapStack)
     ELSE LET l == PopLabel(p.stack)
          IN IF ~l.ok THEN ErrQ(WithStack(st, l.stack), TrapStack)
             ELSE LET f == PopFrame(l.stack)
                  IN IF ~f.ok THEN ErrQ(WithStack(st, f.stack), TrapStack)
                     ELSE LET s2 == PushValues(f.stack, p.vals)
                          IN IF ret_pc # <<>>
                             THEN Ok([st EXCEPT !.stack = s2, !.pc = ret_pc[1]])
                             ELSE OkSignal(WithStack(st, s2), "End")

\* End at block level: the end of a block is reached without a jump
ExecEndBlock(st) ==
  LET r == PopWhileValue(st.stack)
      l == PopLabel(r.stack)
  IN IF ~l.ok THEN ErrQ(WithStack(st, l.stack), TrapStack)
     ELSE Ok(WithStack(st, PushValues(l.stack, [i \in 1..Len(r.popped) |-> r.popped[i].val])))

ExecEnd(st, inst) ==
  IF ~HasFrame(st.stack) THEN ErrQ(st, TrapStack)
  ELSE IF IsFuncTopLevel(st.stack) THEN ExecEndFunc(st)
  ELSE ExecEndBlock(st)

ExecBr(st, inst) == Branch(st, inst.a)

ExecBrIf(st, inst) ==
  LET p == PopValue(st.stack)
  IN IF ~p.ok THEN ErrQ(WithStack(st, p.stack), TrapStack)
     ELSE IF p.val # VI32(0) THEN Branch(WithStack(st, p.stack), inst.a)
     ELSE Ok(WithStack(st, p.stack))

\* a bounds test that is off by one: the last table entry is never selected
BrTableDepthSkipsLast(inst, val) ==
  IF val >= 0 /\ val < Len(inst.tbl) - 1 THEN inst.tbl[val + 1] ELSE inst.a

\* val as usize < table.len(): a negative i32 converts to a usize of 2^63 or more
BrTableDepth(inst, val) ==
  IF val >= 0 /\ val < Len(inst.tbl) THEN inst.tbl[val + 1] ELSE inst.a

ExecBrTable(st, inst) ==
  LET c == PopAs(st.stack, "I32")
  IN IF ~c.ok THEN ErrQ(WithStack(st, c.stack), c.trap)
     ELSE Branch(WithStack(st, c.stack), BrTableDepth(inst, c.v))

ExecReturn(st, inst) == DoReturn(st)

\* a Call that resolves the function index in the module of the root function
ExecCallInRootModule(st, inst, bps) ==
  IF ~HasFrame(st.stack) THEN ErrQ(st, TrapStack)
  ELSE Invoke(st, FuncAddr(st.stack[1].frame.module, inst.a), bps)

ExecCall(st, inst, bps) ==
  IF ~HasFrame(st.stack) THEN ErrQ(st, TrapStack)
  ELSE Invoke(st, FuncAddr(CurrentFrame(st.stack).module, inst.a), bps)

\* a call_indirect that enters the table's function without comparing types
ExecCallIndirectSkipsTypeCheck(st, inst, bps) ==
  IF ~HasFrame(st.stack) THEN ErrQ(st, TrapStack)
  ELSE LET c == PopAs(st.stack, "I32")
       IN IF ~c.ok THEN ErrQ(WithStack(st, c.stack), c.trap)
          ELSE LET st1 == WithStack(st, c.stack)
                   g == TableGetAt(ModuleTable(CurrentFrame(st.stack).module), c.v)
               IN IF ~g.ok THEN ErrQ(st1, g.trap)
                  ELSE Invoke(st1, g.addr, bps)

ExecCallIndirect(st, inst, bps) ==
  IF ~HasFrame(st.stack) THEN ErrQ(st, TrapStack)
  ELSE LET ty == GetType(CurrentFrame(st.stack).module, inst.a)
           c == PopAs(st.stack, "I32")
       IN IF ~c.ok THEN ErrQ(WithStack(st, c.stack), c.trap)
          ELSE LET st1 == WithStack(st, c.stack)
                   g == TableGetAt(ModuleTable(CurrentFrame(st.stack).module), c.v)
               IN IF ~g.ok THEN ErrQ(st1, g.trap)
                  ELSE LET r == StoreFunc(g.addr)
                       IN IF r = <<>> THEN ErrQ(st1, TrapUndefinedFunc(g.addr.index))
                          ELSE IF EqFuncType(FuncGlobal(r[1]), ty)
                          THEN Invoke(st1, g.addr, bps)
                          ELSE Err(st1, TrapIndirectCallTypeMismatch)

ExecDrop(st, inst) ==
  LET p == PopValue(st.stack)
  IN IF ~p.ok THEN ErrQ(WithStack(st, p.stack), TrapStack)
     ELSE Ok(WithStack(st, p.stack))

ExecSelect(st, inst) ==
  LET c == PopAs(st.stack, "I32")
  IN IF ~c.ok THEN ErrQ(WithStack(st, c.stack), c.trap)
     ELSE LET p2 == PopValue(c.stack)
              p1 == PopValue(p2.stack)
          IN IF ~p2.ok THEN ErrQ(WithStack(st, p2.stack), TrapStack)
             ELSE IF ~p1.ok THEN ErrQ(WithStack(st, p1.stack), TrapStack)
             ELSE Ok(WithStack(st, PushValue(p1.stack, IF c.v # 0 THEN p1.val ELSE p2.val)))

ExecLocalGet(st, inst) ==
  IF ~HasFrame(st.stack) THEN ErrQ(st, TrapStack)
  ELSE IF inst.a >= Len(CurrentFrame(st.stack).locals) THEN Panic(st)
  ELSE Ok(WithStack(st, PushValue(st.stack, CurrentFrame(st.stack).locals[inst.a + 1])))

\* a set_local that writes the local of the root activation
SetLocalInRootFrame(st, index) ==
  LET p == PopValue(st.stack)
  IN IF ~p.ok THEN Err(WithStack(st, p.stack), TrapStack)
     ELSE IF ~HasFrame(p.stack) \/ index >= Len(p.stack[1].frame.locals)
     THEN Err(WithStack(st, p.stack), TrapStack)
     ELSE Ok(WithStack(st, [p.stack EXCEPT ![1].frame.locals[index + 1] = p.val]))

\* Executor::set_local
SetLocal(st, index) ==
  LET p == PopValue(st.stack)
  IN IF ~p.ok THEN Err(WithStack(st, p.stack), TrapStack)
     ELSE IF ~HasFrame(p.stack) \/ index >= Len(CurrentFrame(p.stack).locals)
     THEN Err(WithStack(st, p.stack), TrapStack)
     ELSE Ok(WithStack(st, SetLocalAt(p.stack, index, p.val)))

ExecLocalSet(st, inst) == SetLocal(st, inst.a)

ExecLocalTee(st, inst) ==
  LET p == PopValue(st.stack)
  IN IF ~p.ok THEN ErrQ(WithStack(st, p.stack), TrapStack)
     ELSE SetLocal(WithStack(st, PushValue(PushValue(p.stack, p.val), p.val)), inst.a)

ExecI32Const(st, inst) == Ok(WithStack(st, PushValue(st.stack, VI32(inst.a))))

ExecI64Const(st, inst) == Ok(WithStack(st, PushValue(st.stack, VI64(inst.a))))

\* Executor::binop: pop the right operand, then the left one, both as i32
PopOperandsI32(s) ==
  LET rhs == PopAs(s, "I32")
      lhs == PopAs(rhs.stack, "I32")
  IN IF ~rhs.ok THEN [ok |-> FALSE, lhs |-> 0, rhs |-> 0, stack |-> rhs.stack, trap |-> rhs.trap]
     ELSE IF ~lhs.ok
     THEN [ok |-> FALSE, lhs |-> 0, rhs |-> 0, stack |-> lhs.stack, trap |-> lhs.trap]
     ELSE [ok |-> TRUE, lhs |-> lhs.v, rhs |-> rhs.v, stack |-> lhs.stack, trap |-> NoTrap]

ExecI32Add(st, inst) ==
  LET o == PopOperandsI32(st.stack)
  IN IF ~o.ok THEN Err(WithStack(st, o.stack), o.trap)
     ELSE Ok(WithStack(st, PushValue(o.stack, VI32(WrappingAdd32(o.lhs, o.rhs)))))

ExecI32Sub(st, inst) ==
  LET o == PopOperandsI32(st.stack)
  IN IF ~o.ok THEN Err(WithStack(st, o.stack), o.trap)
     ELSE Ok(WithStack(st, PushValue(o.stack, VI32(WrappingSub32(o.lhs, o.rhs)))))

\* Executor::testop via unop
ExecI32Eqz(st, inst) ==
  LET v == PopAs(st.stack, "I32")
  IN IF ~v.ok THEN Err(WithStack(st, v.stack), v.trap)
     ELSE Ok(WithStack(st, PushValue(v.stack, VI32(IF v.v = 0 THEN 1 ELSE 0))))

\* GlobalGet: push the value of the global the index names in the module of
\* the function at the pc (the module_index handed over by execute_step)
ExecGlobalGet(st, inst) ==
  Ok(WithStack(st, PushValue(st.stack,
       GlobalValue(st.globals, GlobalIndex(FuncGlobal(st.pc.func).module, inst.a)))))

\* GlobalSet: pop a value of any type and set it, whatever the global is
ExecGlobalSet(st, inst) ==
  LET p == PopValue(st.stack)
  IN IF ~p.ok THEN ErrQ(WithStack(st, p.stack), TrapStack)
     ELSE Ok([st EXCEPT !.stack = p.stack,
                        !.globals =
                          GlobalSetValue(@, GlobalIndex(FuncGlobal(st.pc.func).module,
                                                        inst.a), p.val)])

\* a.wrapping_mul(b) on 32 bits: shift and add over the bits of b, from the
\* most significant one, every sum wrapping
RECURSIVE MulShiftAdd(_, _, _)
MulShiftAdd(a, bits, i) ==
  IF i > 32 THEN 0
  ELSE CHOOSE out \in { WrappingAdd32(WrappingAdd32(h, h), IF bits[i] = 1 THEN a ELSE 0) :
                        h \in { MulShiftAdd(a, bits, i + 1) } } : TRUE

WrappingMul32(a, b) == MulShiftAdd(a, Bits32(b), 1)

ExecI32Mul(st, inst) ==
  LET o == PopOperandsI32(st.stack)
  IN IF ~o.ok THEN Err(WithStack(st, o.stack), o.trap)
     ELSE Ok(WithStack(st, PushValue(o.stack, VI32(WrappingMul32(o.lhs, o.rhs)))))

(***************************************************************************)
(* The integer binary operators of Executor::binop.  A value is taken as   *)
(* its two's complement pattern, least significant bit first.              *)
(***************************************************************************)
\* wrapping_add: bit by bit with a carry, the carry out of the top bit lost
RECURSIVE BitsAdd(_, _, _, _)
BitsAdd(a, b, i, carry) ==
  IF i > Len(a) THEN <<>>
  ELSE <<(a[i] + b[i] + carry) % 2>>
         \o BitsAdd(a, b, i + 1, (a[i] + b[i] + carry) \div 2)

\* a shifted or rotated by k positions: shl and shr_u fill with zeros, shr_s
\* with the sign bit, rotl and rotr with the bits that leave at the other end
Shifted(f, a, k) ==
  LET n == Len(a)
  IN [i \in 1..n |->
        CASE f = "shl" -> IF i > k THEN a[i - k] ELSE 0
          [] f = "shr_u" -> IF i + k <= n THEN a[i + k] ELSE 0
          [] f = "shr_s" -> IF i + k <= n THEN a[i + k] ELSE a[n]
          [] f = "rotl" -> a[((i - 1 + n - (k % n)) % n) + 1]
          [] OTHER -> a[((i - 1 + k) % n) + 1]]

\* wrapping_mul: the sum of a shifted left by i - 1 over the bits i of b that
\* are set, every sum wrapping; the bits lo..hi of b are summed half by half
RECURSIVE PartialProducts(_, _, _, _)
PartialProducts(a, b, lo, hi) ==
  IF lo = hi
  THEN (IF b[lo] = 1 THEN Shifted("shl", a, lo - 1) ELSE BitsZero(Len(a)))
  ELSE CHOOSE out \in { BitsAdd(x, y, 1, 0) :
                          x \in { PartialProducts(a, b, lo, (lo + hi) \div 2) },
                          y \in { PartialProducts(a, b, (lo + hi) \div 2 + 1, hi) } } : TRUE

BitsMul(a, b, i) == PartialProducts(a, b, i, Len(b))

\* the count of wrapping_shl and wrapping_shr: `rhs as u32` with the bits
\* that would exceed the width of the type masked off
ShiftCount(b, n) == BitsSum(SubSeq(b, 1, 32), IF n = 32 THEN 5 ELSE 6)

\* the count of rotate_left and rotate_right: `rhs as u32` modulo the width
\* (bit 32 of the count weighs 2^31, a multiple of the width)
RotateCount(b, n) == BitsSum(SubSeq(b, 1, 32), 31) % n

\* closures whose shifts and rotations take the count as it is given
IntBinopUnmaskedCount(ty, f, lhs, rhs) ==
  LET a == ValueBits(lhs)
      b == ValueBits(rhs)
  IN CASE f = "add" -> BitsValue(ty, BitsAdd(a, b, 1, 0))
       [] f = "sub" -> BitsValue(ty, BitsSub(a, b, 1, 0))
       [] f = "mul" -> BitsValue(ty, BitsMul(a, b, 1))
       [] OTHER -> BitsValue(ty, Shifted(f, a, BitsSum(b, 7)))

\* the closures of the I32Add..I32Rotr and I64Add..I64Rotr arms
IntBinop(ty, f, lhs, rhs) ==
  LET a == ValueBits(lhs)
      b == ValueBits(rhs)
      n == Len(a)
  IN CASE f = "add" /\ ty = "I32" -> VI32(WrappingAdd32(lhs.v, rhs.v))
       [] f = "sub" /\ ty = "I32" -> VI32(WrappingSub32(lhs.v, rhs.v))
       [] f = "mul" /\ ty = "I32" -> VI32(WrappingMul32(lhs.v, rhs.v))
       [] f = "add" -> BitsValue(ty, BitsAdd(a, b, 1, 0))
       [] f = "sub" -> BitsValue(ty, BitsSub(a, b, 1, 0))
       [] f = "mul" -> BitsValue(ty, BitsMul(a, b, 1))
       [] f \in {"shl", "shr_s", "shr_u"} -> BitsValue(ty, Shifted(f, a, ShiftCount(b, n)))
       [] OTHER -> BitsValue(ty, Shifted(f, a, RotateCount(b, n)))

\* Executor::binop: rhs is popped first, both by pop_as
Binop(st, ty, f) ==
  LET rhs == PopValue(st.stack)
      lhs == PopValue(rhs.stack)
  IN IF ~rhs.ok THEN Err(WithStack(st, rhs.stack), TrapStack)
     ELSE IF rhs.val.ty # ty
     THEN Err(WithStack(st, rhs.stack), TrapUnexpectedStackValueType(ty, rhs.val.ty))
     ELSE IF ~lhs.ok THEN Err(WithStack(st, lhs.stack), TrapStack)
     ELSE IF lhs.val.ty # ty
     THEN Err(WithStack(st, lhs.stack), TrapUnexpectedStackValueType(ty, lhs.val.ty))
     ELSE CHOOSE out \in
            { Ok(WithStack(st, PushValue(lhs.stack, x))) :
                x \in { IntBinop(ty, f, lhs.val, rhs.val) } } : TRUE

\* the integer arms that go through binop, and the closure of each
BinopFuncs == {"Add", "Sub", "Mul", "Shl", "ShrS", "ShrU", "Rotl", "Rotr"}

BinopKinds == { ty \o f : ty \in {"I32", "I64"}, f \in BinopFuncs }

BinopClosure(kind) ==
  LET f == SubSeq(kind, 4, Len(kind))
  IN CASE f = "Add" -> "add" [] f = "Sub" -> "sub" [] f = "Mul" -> "mul"
       [] f = "Shl" -> "shl" [] f = "ShrS" -> "shr_s" [] f = "ShrU" -> "shr_u"
       [] f = "Rotl" -> "rotl" [] OTHER -> "rotr"

ExecBinop(st, inst) == Binop(st, SubSeq(inst.op, 1, 3), BinopClosure(inst.op))

\* a try_binop that leaves its operands on the stack when the closure fails
TryBinopKeepsOperands(st, ty, f) ==
  LET rhs == PopValue(st.stack)
      lhs == PopValue(rhs.stack)
  IN IF ~rhs.ok THEN Err(WithStack(st, rhs.stack), TrapStack)
     ELSE IF rhs.val.ty # ty
     THEN Err(WithStack(st, rhs.stack), TrapUnexpectedStackValueType(ty, rhs.val.ty))
     ELSE IF ~lhs.ok THEN Err(WithStack(st, lhs.stack), TrapStack)
     ELSE IF lhs.val.ty # ty
     THEN Err(WithStack(st, lhs.stack), TrapUnexpectedStackValueType(ty, lhs.val.ty))
     ELSE CHOOSE out \in
            { IF x.ok THEN Ok(WithStack(st, PushValue(lhs.stack, x.val)))
              ELSE Err(st, x.trap) :
                x \in { TryWrapping(f, lhs.val, rhs.val) } } : TRUE

\* Executor::try_binop: rhs is popped first; the closure's error becomes Trap::Value
TryBinop(st, ty, f) ==
  LET rhs == PopValue(st.stack)
      lhs == PopValue(rhs.stack)
  IN IF ~rhs.ok THEN Err(WithStack(st, rhs.stack), TrapStack)
     ELSE IF rhs.val.ty # ty
     THEN Err(WithStack(st, rhs.stack), TrapUnexpectedStackValueType(ty, rhs.val.ty))
     ELSE IF ~lhs.ok THEN Err(WithStack(st, lhs.stack), TrapStack)
     ELSE IF lhs.val.ty # ty
     THEN Err(WithStack(st, lhs.stack), TrapUnexpectedStackValueType(ty, lhs.val.ty))
     ELSE CHOOSE out \in
            { IF x.ok THEN Ok(WithStack(st, PushValue(lhs.stack, x.val)))
              ELSE Err(WithStack(st, lhs.stack), x.trap) :
                x \in { TryWrapping(f, lhs.val, rhs.val) } } : TRUE

\* Executor::load::<T>
Load(st, offset, ty) ==
  LET b == PopAs(st.stack, "I32")
  IN IF ~b.ok THEN Err(WithStack(st, b.stack), b.trap)
     ELSE LET addr == EffectiveAddr(b.v, offset, st.checks)
              st1 == WithStack(st, b.stack)
          IN IF addr = AddrOverflow THEN Panic(st1)
             ELSE IF ~HasFrame(b.stack) THEN Err(st1, TrapStack)
             ELSE IF ~InBounds(st.mem, addr, SizeOf(ty)) THEN Err(st1, TrapMemory)
             ELSE Ok(WithStack(st, PushValue(b.stack,
                        FromLE(ty, MemLoadBytes(st.mem, addr, SizeOf(ty))))))

\* a load_extend that zero-extends whatever the source type
LoadExtendUnsigned(st, offset, from, to) ==
  LET b == PopAs(st.stack, "I32")
      w == NarrowWidth(from)
      u == CASE w = 1 -> "u8" [] w = 2 -> "u16" [] OTHER -> "u32"
  IN IF ~b.ok THEN Err(WithStack(st, b.stack), b.trap)
     ELSE LET addr == EffectiveAddr(b.v, offset, st.checks)
              st1 == WithStack(st, b.stack)
          IN IF addr = AddrOverflow THEN Panic(st1)
             ELSE IF ~HasFrame(b.stack) THEN Err(st1, TrapStack)
             ELSE IF ~InBounds(st.mem, addr, w) THEN Err(st1, TrapMemory)
             ELSE Ok(WithStack(st, PushValue(b.stack,
                        ExtendInto(u, to, MemLoadBytes(st.mem, addr, w)))))

\* Executor::load_extend::<T, U>
LoadExtend(st, offset, from, to) ==
  LET b == PopAs(st.stack, "I32")
  IN IF ~b.ok THEN Err(WithStack(st, b.stack), b.trap)
     ELSE LET addr == EffectiveAddr(b.v, offset, st.checks)
              st1 == WithStack(st, b.stack)
          IN IF addr = AddrOverflow THEN Panic(st1)
             ELSE IF ~HasFrame(b.stack) THEN Err(st1, TrapStack)
             ELSE IF ~InBounds(st.mem, addr, NarrowWidth(from)) THEN Err(st1, TrapMemory)
             ELSE Ok(WithStack(st, PushValue(b.stack,
                        ExtendInto(from, to, MemLoadBytes(st.mem, addr, NarrowWidth(from))))))

\* a store_with_width that ignores the width and writes every byte of the value
StoreWithWidthIgnoresWidth(st, offset, ty, width) ==
  LET v == PopValue(st.stack)
      b == PopAs(v.stack, "I32")
  IN IF ~v.ok THEN Err(WithStack(st, v.stack), TrapStack)
     ELSE IF v.val.ty # ty
     THEN Err(WithStack(st, v.stack), TrapUnexpectedStackValueType(ty, v.val.ty))
     ELSE IF ~b.ok THEN Err(WithStack(st, b.stack), b.trap)
     ELSE LET addr == EffectiveAddr(b.v, offset, st.checks)
              st1 == WithStack(st, b.stack)
          IN IF addr = AddrOverflow THEN Panic(st1)
             ELSE IF ~HasFrame(b.stack) THEN Err(st1, TrapStack)
             ELSE IF ~InBounds(st.mem, addr, SizeOf(ty)) THEN Err(st1, TrapMemory)
             ELSE Ok([st1 EXCEPT !.mem = MemStoreBytes(st.mem, addr, IntoLE(v.val))])

\* Executor::store_with_width::<T>: the first width bytes of the value's bytes
StoreWithWidth(st, offset, ty, width) ==
  LET v == PopValue(st.stack)
      b == PopAs(v.stack, "I32")
  IN IF ~v.ok THEN Err(WithStack(st, v.stack), TrapStack)
     ELSE IF v.val.ty # ty
     THEN Err(WithStack(st, v.stack), TrapUnexpectedStackValueType(ty, v.val.ty))
     ELSE IF ~b.ok THEN Err(WithStack(st, b.stack), b.trap)
     ELSE LET addr == EffectiveAddr(b.v, offset, st.checks)
              st1 == WithStack(st, b.stack)
          IN IF addr = AddrOverflow THEN Panic(st1)
             ELSE IF ~HasFrame(b.stack) THEN Err(st1, TrapStack)
             ELSE IF ~InBounds(st.mem, addr, width) THEN Err(st1, TrapMemory)
             ELSE Ok([st1 EXCEPT !.mem =
                        MemStoreBytes(st.mem, addr, SubSeq(IntoLE(v.val), 1, width))])

\* a store that writes the four low bytes whatever the size of its type
StoreFourBytes(st, offset, ty) == StoreWithWidth(st, offset, ty, 4)

\* Executor::store::<T>
Store(st, offset, ty) == StoreWithWidth(st, offset, ty, SizeOf(ty))

ExecI32Load(st, inst) == Load(st, inst.a, "I32")

ExecI32Store(st, inst) == Store(st, inst.a, "I32")

ExecMemorySize(st, inst) ==
  IF ~HasFrame(st.stack) THEN ErrQ(st, TrapStack)
  ELSE Ok(WithStack(st, PushValue(st.stack, VI32(st.mem.pages))))

\* a MemoryGrow that pushes the page count after the growth
ExecMemoryGrowPushesNewSize(st, inst) ==
  LET g == PopAs(st.stack, "I32")
  IN IF ~g.ok THEN ErrQ(WithStack(st, g.stack), g.trap)
     ELSE IF ~HasFrame(g.stack) THEN ErrQ(WithStack(st, g.stack), TrapStack)
     ELSE IF MemCanGrow(st.mem, g.v)
     THEN Ok([st EXCEPT !.stack = PushValue(g.stack, VI32(st.mem.pages + g.v)),
                        !.mem = MemGrow(st.mem, g.v)])
     ELSE Ok(WithStack(st, PushValue(g.stack, VI32(-1))))

ExecMemoryGrow(st, inst) ==
  LET g == PopAs(st.stack, "I32")
  IN IF ~g.ok THEN ErrQ(WithStack(st, g.stack), g.trap)
     ELSE IF ~HasFrame(g.stack) THEN ErrQ(WithStack(st, g.stack), TrapStack)
     ELSE IF MemCanGrow(st.mem, g.v)
     THEN Ok([st EXCEPT !.stack = PushValue(g.stack, VI32(st.mem.pages)),
                        !.mem = MemGrow(st.mem, g.v)])
     ELSE Ok(WithStack(st, PushValue(g.stack, VI32(-1))))

\* the match of execute_inst
ExecBody(st, inst, bps) ==
  CASE inst.op = "Unreachable" -> Err(st, TrapUnreachable)
    [] inst.op = "Nop" -> Ok(st)
    [] inst.op = "Block" -> ExecBlock(st, inst)
    [] inst.op = "Loop" -> ExecLoop(st, inst)
    [] inst.op = "If" -> ExecIf(st, inst)
    [] inst.op = "Else" -> ExecElse(st, inst)
    [] inst.op = "End" -> ExecEnd(st, inst)
    [] inst.op = "Br" -> ExecBr(st, inst)
    [] inst.op = "BrIf" -> ExecBrIf(st, inst)
    [] inst.op = "BrTable" -> ExecBrTable(st, inst)
    [] inst.op = "Return" -> ExecReturn(st, inst)
    [] inst.op = "Call" -> ExecCall(st, inst, bps)
    [] inst.op = "CallIndirect" -> ExecCallIndirect(st, inst, bps)
    [] inst.op = "Drop" -> ExecDrop(st, inst)
    [] inst.op = "Select" -> ExecSelect(st, inst)
    [] inst.op = "LocalGet" -> ExecLocalGet(st, inst)
    [] inst.op = "LocalSet" -> ExecLocalSet(st, inst)
    [] inst.op = "LocalTee" -> ExecLocalTee(st, inst)
    [] inst.op = "I32Const" -> ExecI32Const(st, inst)
    [] inst.op = "I64Const" -> ExecI64Const(st, inst)
    [] inst.op = "I32Add" -> ExecI32Add(st, inst)
    [] inst.op = "I32Sub" -> ExecI32Sub(st, inst)
    [] inst.op = "I32Eqz" -> ExecI32Eqz(st, inst)
    [] inst.op = "I32Mul" -> ExecI32Mul(st, inst)
    [] inst.op = "GlobalGet" -> ExecGlobalGet(st, inst)
    [] inst.op = "GlobalSet" -> ExecGlobalSet(st, inst)
    [] inst.op = "I32Load" -> ExecI32Load(st, inst)
    [] inst.op = "I32Store" -> ExecI32Store(st, inst)
    [] inst.op = "MemorySize" -> ExecMemorySize(st, inst)
    [] inst.op = "MemoryGrow" -> ExecMemoryGrow(st, inst)
    [] inst.op = "I64Load" -> Load(st, inst.a, "I64")
    [] inst.op = "F32Load" -> Load(st, inst.a, "F32")
    [] inst.op = "F64Load" -> Load(st, inst.a, "F64")
    [] inst.op = "I32Load8S" -> LoadExtend(st, inst.a, "i8", "I32")
    [] inst.op = "I32Load8U" -> LoadExtend(st, inst.a, "u8", "I32")
    [] inst.op = "I32Load16S" -> LoadExtend(st, inst.a, "i16", "I32")
    [] inst.op = "I32Load16U" -> LoadExtend(st, inst.a, "u16", "I32")
    [] inst.op = "I64Load8S" -> LoadExtend(st, inst.a, "i8", "I64")
    [] inst.op = "I64Load8U" -> LoadExtend(st, inst.a, "u8", "I64")
    [] inst.op = "I64Load16S" -> LoadExtend(st, inst.a, "i16", "I64")
    [] inst.op = "I64Load16U" -> LoadExtend(st, inst.a, "u16", "I64")
    [] inst.op = "I64Load32S" -> LoadExtend(st, inst.a, "i32", "I64")
    [] inst.op = "I64Load32U" -> LoadExtend(st, inst.a, "u32", "I64")
    [] inst.op = "I64Store" -> Store(st, inst.a, "I64")
    [] inst.op = "F32Store" -> Store(st, inst.a, "F32")
    [] inst.op = "F64Store" -> Store(st, inst.a, "F64")
    [] inst.op = "I32Store8" -> StoreWithWidth(st, inst.a, "I32", 1)
    [] inst.op = "I32Store16" -> StoreWithWidth(st, inst.a, "I32", 2)
    [] inst.op = "I64Store8" -> StoreWithWidth(st, inst.a, "I64", 1)
    [] inst.op = "I64Store16" -> StoreWithWidth(st, inst.a, "I64", 2)
    [] inst.op = "I64Store32" -> StoreWithWidth(st, inst.a, "I64", 4)
    [] inst.op = "I32DivS" -> TryBinop(st, "I32", "div_s")
    [] inst.op = "I32DivU" -> TryBinop(st, "I32", "div_u")
    [] inst.op = "I32RemS" -> TryBinop(st, "I32", "rem_s")
    [] inst.op = "I32RemU" -> TryBinop(st, "I32", "rem_u")
    [] inst.op = "I64DivS" -> TryBinop(st, "I64", "div_s")
    [] inst.op = "I64DivU" -> TryBinop(st, "I64", "div_u")
    [] inst.op = "I64RemS" -> TryBinop(st, "I64", "rem_s")
    [] inst.op = "I64RemU" -> TryBinop(st, "I64", "rem_u")
    [] OTHER -> Panic(st)

\* a termination check that passes on only the state of the body
TerminationCheckDropsResult(body) ==
  IF IsOverTopLevel(body.st.stack) THEN OkSignal(body.st, "End")
  ELSE IF body.sig = "Panic" THEN body
  ELSE Ok(body.st)

\* an execute_inst without its termination check: the arm's result is returned
TerminationCheckSkipped(body) == body

\* the end of execute_inst: a body that returned a value (not by `?`) is
\* replaced by End once the root activation is gone
TerminationCheck(body) ==
  IF body.early THEN body
  ELSE IF IsOverTopLevel(body.st.stack) THEN OkSignal(body.st, "End")
  ELSE body

\* Executor::execute_inst: advance the pc, run the arm, check for termination
ExecuteInst(st, inst, bps) ==
  TerminationCheck(ExecBody([st EXCEPT !.pc.inst = @ + 1], inst, bps))

\* Executor::execute_step: fetch the instruction at the pc
ExecuteStep(st, bps) ==
  LET code == FuncGlobal(st.pc.func).code
  IN IF st.pc.inst >= Len(code) THEN Panic(st)
     ELSE ExecuteInst(st, code[st.pc.inst + 1], bps)

(***************************************************************************)
(* The run driver simple_invoke_func.                                      *)
(***************************************************************************)
Running == [kind |-> "Running", values |-> <<>>, err |-> NoTrap]

\* Executor::pop_result: one pop per declared return type, checking each tag
RECURSIVE PopResult(_, _)
PopResult(s, tys) ==
  IF tys = <<>> THEN [kind |-> "Ok", values |-> <<>>, stack |-> s]
  ELSE LET p == PopValue(s)
       IN IF ~p.ok THEN [kind |-> "ReturnValueError.Stack", values |-> <<>>, stack |-> p.stack]
          ELSE IF p.val.ty # tys[1]
          THEN [kind |-> "ReturnValueError.TypeMismatchReturnValue",
                values |-> <<>>, stack |-> p.stack]
          ELSE LET r == PopResult(p.stack, Tail(tys))
               IN [kind |-> r.kind,
                   values |-> IF r.kind = "Ok" THEN <<p.val>> \o r.values ELSE <<>>,
                   stack |-> r.stack]

\* a driver that stops its loop at a Breakpoint as it does at End
DriverMatchBreakpointStops(r, ret_types) ==
  CASE r.sig = "Next" -> [result |-> Running, stack |-> r.st.stack]
    [] r.sig \in {"End", "Breakpoint"} ->
         LET v == PopResult(r.st.stack, ret_types)
         IN [result |-> [kind |-> v.kind, values |-> v.values, err |-> NoTrap],
             stack |-> v.stack]
    [] r.sig = "Trap" ->
         [result |-> [kind |-> "ExecutionError", values |-> <<>>, err |-> r.trap],
          stack |-> r.st.stack]
    [] OTHER -> [result |-> [kind |-> "Panic", values |-> <<>>, err |-> NoTrap],
                 stack |-> r.st.stack]

\* the match on the result of execute_step in the driver's loop
DriverMatch(r, ret_types) ==
  CASE r.sig \in {"Next", "Breakpoint"} -> [result |-> Running, stack |-> r.st.stack]
    [] r.sig = "End" ->
         LET v == PopResult(r.st.stack, ret_types)
         IN [result |-> [kind |-> v.kind, values |-> v.values, err |-> NoTrap],
             stack |-> v.stack]
    [] r.sig = "Trap" ->
         [result |-> [kind |-> "ExecutionError", values |-> <<>>, err |-> r.trap],
          stack |-> r.st.stack]
    [] OTHER -> [result |-> [kind |-> "Panic", values |-> <<>>, err |-> NoTrap],
                 stack |-> r.st.stack]

(***************************************************************************)
(* Initial states: simple_invoke_func on a defined function of the store,  *)
(* with arguments drawn from ArgVals and an interceptor with or without    *)
(* breakpoints.                                                            *)
(***************************************************************************)
ArgVals ==
  { VI32(0), VI32(1), VI32(2), VI32(3), VI32(4), VI32(5), VI32(-1), VI32(MinI32), VI32(MaxI32),
    VI32(65533), VI32(65532), VI32(65535), VI32(305419896),
    VI64(Int64(0)), VI64(Int64(1)), VI64(Int64(-1)), VI64(<<MinI32, 0>>),
    VI64(<<305419896, -1698898192>>), VI64(<<-1, MaxI32>>),
    VF32(0), VF32(2143289345), VF64(<<2146959360, 1>>) }

BreakChoices == { {}, {"callee_end", "sum", "void"} }

\* what the last call on the table was and what it returned
TableRet(op, arg, data, ok, addr, err) ==
  [op |-> op, arg |-> arg, data |-> data, ok |-> ok, addr |-> addr, err |-> err]

\* for each index, the address last written there by an initialize whose
\* segment fitted the table: a record of the calls made, kept beside the table
NeverWritten == [i \in 0..MaxInitial |-> <<>>]

Overlay(written, offset, data) ==
  [i \in DOMAIN written |->
     IF i >= offset /\ i - offset < Len(data) THEN <<data[i - offset + 1]>> ELSE written[i]]

\* table 0 of the module as instantiation leaves it; the executor only reads it
TableInstantiated ==
  /\ table = [buffer |-> StoreTable, max |-> <<>>]
  /\ tableRet = TableRet("new", Len(StoreTable), <<>>, TRUE, FuncAddr(0, 0), NoTableError)
  /\ tableWritten = Overlay(NeverWritten, 0, <<FuncAddr(1, 7), FuncAddr(1, 15)>>)
  /\ tableOps = 0

CurrentInst == FuncGlobal(pc.func).code[pc.inst + 1]

\* instruction kinds that fall to the default arm of execute_inst's match
UnimplementedOps == { "I32Extend8S" }

\* no constant expression is being evaluated
ConstIdle == [expr |-> Ins("Nop"), done |-> FALSE, kind |-> "None", val |-> NoValue]

NumIdle ==
  [op |-> "Nop", lhs |-> NoValue, rhs |-> NoValue, done |-> FALSE, sig |-> "None", out |-> <<>>]

InitFrom(vals) ==
  \E e \in ExecAddrs :
    \E args \in [1..Len(FuncGlobal(e).params) -> vals] :
      \E bps \in BreakChoices :
        /\ overflowChecks \in BOOLEAN
        /\ entry = e
        /\ breakFuncs = bps
        /\ pc = ProgramCounter(FuncGlobal(e).module, e, 0)
        /\ stack = (IF FuncGlobal(e).host # "none" THEN <<>>
                    ELSE PushLabel(SetFrame(<<>>, NewFrame(e, FuncGlobal(e), args, <<>>)),
                                   LabelReturn(Len(FuncGlobal(e).returns))))
        /\ mem = [pages |-> InitialPages, max |-> MaximumPages, bytes |-> InitialData]
        /\ signal = "None"
        /\ trap = NoTrap
        /\ result = Running
        /\ steps = 0
        /\ globals = InitialGlobals
        /\ intercepted = <<>>
        /\ constEval = ConstIdle
        /\ numEval = NumIdle
        /\ TableInstantiated

Init == InitFrom(ArgVals)

\* the arguments of the runs that are followed to their end
LiveArgVals ==
  { VI32(0), VI32(1), VI32(-1), VI32(MinI32), VI32(65533),
    VI64(Int64(0)), VI64(Int64(-1)), VI64(<<MinI32, 0>>),
    VF32(2143289345), VF64(<<2146959360, 1>>) }

LiveInit == InitFrom(LiveArgVals)

\* the driver is in its loop and the pc is at an instruction of kind op
Fetches(op) ==
  /\ result.kind = "Running"
  /\ steps < MaxSteps
  /\ pc.inst < Len(FuncGlobal(pc.func).code)
  /\ CurrentInst.op = op

\* the executor's state, and that state with the pc advanced past the instruction
Machine ==
  [pc |-> pc, stack |-> stack, mem |-> mem, checks |-> overflowChecks,
   globals |-> globals, icpt |-> <<>>]
\* an executor that leaves the pc on the instruction it executes
NotAdvanced == Machine

Advanced == [Machine EXCEPT !.pc.inst = @ + 1]

\* one iteration of the driver's loop, given what the arm of the fetched
\* instruction returned: the termination check of execute_inst, then the
\* driver's match on the result of execute_step
DriverStep(body) ==
  \E r \in {TerminationCheck(body)} :
    \E d \in {DriverMatch(r, FuncGlobal(entry).returns)} :
      /\ pc' = r.st.pc
      /\ stack' = d.stack
      /\ mem' = r.st.mem
      /\ signal' = r.sig
      /\ trap' = r.trap
      /\ result' = d.result
      /\ steps' = steps + 1
      /\ globals' = r.st.globals
      /\ intercepted' = r.st.icpt
      /\ UNCHANGED <<breakFuncs, entry, overflowChecks>>
      /\ UNCHANGED tableVars
      /\ UNCHANGED constVars

StepUnreachable ==
  /\ Fetches("Unreachable")
  /\ DriverStep(Err(Advanced, TrapUnreachable))

StepNop ==
  /\ Fetches("Nop")
  /\ DriverStep(Ok(Advanced))

StepBlock ==
  /\ Fetches("Block")
  /\ DriverStep(ExecBlock(Advanced, CurrentInst))

StepLoop ==
  /\ Fetches("Loop")
  /\ DriverStep(ExecLoop(Advanced, CurrentInst))

StepIf ==
  /\ Fetches("If")
  /\ DriverStep(ExecIf(Advanced, CurrentInst))

StepElse ==
  /\ Fetches("Else")
  /\ DriverStep(ExecElse(Advanced, CurrentInst))

StepEnd ==
  /\ Fetches("End")
  /\ DriverStep(ExecEnd(Advanced, CurrentInst))

StepBr ==
  /\ Fetches("Br")
  /\ DriverStep(ExecBr(Advanced, CurrentInst))

StepBrIf ==
  /\ Fetches("BrIf")
  /\ DriverStep(ExecBrIf(Advanced, CurrentInst))

StepBrTable ==
  /\ Fetches("BrTable")
  /\ DriverStep(ExecBrTable(Advanced, CurrentInst))

StepReturn ==
  /\ Fetches("Return")
  /\ DriverStep(ExecReturn(Advanced, CurrentInst))

StepCall ==
  /\ Fetches("Call")
  /\ DriverStep(ExecCall(Advanced, CurrentInst, breakFuncs))

StepCallIndirect ==
  /\ Fetches("CallIndirect")
  /\ DriverStep(ExecCallIndirect(Advanced, CurrentInst, breakFuncs))

StepDrop ==
  /\ Fetches("Drop")
  /\ DriverStep(ExecDrop(Advanced, CurrentInst))

StepSelect ==
  /\ Fetches("Select")
  /\ DriverStep(ExecSelect(Advanced, CurrentInst))

StepLocalGet ==
  /\ Fetches("LocalGet")
  /\ DriverStep(ExecLocalGet(Advanced, CurrentInst))

StepLocalSet ==
  /\ Fetches("LocalSet")
  /\ DriverStep(ExecLocalSet(Advanced, CurrentInst))

StepLocalTee ==
  /\ Fetches("LocalTee")
  /\ DriverStep(ExecLocalTee(Advanced, CurrentInst))

StepI32Const ==
  /\ Fetches("I32Const")
  /\ DriverStep(ExecI32Const(Advanced, CurrentInst))

StepI64Const ==
  /\ Fetches("I64Const")
  /\ DriverStep(ExecI64Const(Advanced, CurrentInst))

StepI32Add ==
  /\ Fetches("I32Add")
  /\ DriverStep(ExecI32Add(Advanced, CurrentInst))

StepI32Sub ==
  /\ Fetches("I32Sub")
  /\ DriverStep(ExecI32Sub(Advanced, CurrentInst))

StepI32Eqz ==
  /\ Fetches("I32Eqz")
  /\ DriverStep(ExecI32Eqz(Advanced, CurrentInst))

StepI32Load ==
  /\ Fetches("I32Load")
  /\ DriverStep(ExecI32Load(Advanced, CurrentInst))

StepI32Store ==
  /\ Fetches("I32Store")
  /\ DriverStep(ExecI32Store(Advanced, CurrentInst))

StepMemorySize ==
  /\ Fetches("MemorySize")
  /\ DriverStep(ExecMemorySize(Advanced, CurrentInst))

StepMemoryGrow ==
  /\ Fetches("MemoryGrow")
  /\ DriverStep(ExecMemoryGrow(Advanced, CurrentInst))

StepI64Load ==
  /\ Fetches("I64Load")
  /\ DriverStep(Load(Advanced, CurrentInst.a, "I64"))

StepF32Load ==
  /\ Fetches("F32Load")
  /\ DriverStep(Load(Advanced, CurrentInst.a, "F32"))

StepF64Load ==
  /\ Fetches("F64Load")
  /\ DriverStep(Load(Advanced, CurrentInst.a, "F64"))

StepI32Load8S ==
  /\ Fetches("I32Load8S")
  /\ DriverStep(LoadExtend(Advanced, CurrentInst.a, "i8", "I32"))

StepI32Load8U ==
  /\ Fetches("I32Load8U")
  /\ DriverStep(LoadExtend(Advanced, CurrentInst.a, "u8", "I32"))

StepI32Load16S ==
  /\ Fetches("I32Load16S")
  /\ DriverStep(LoadExtend(Advanced, CurrentInst.a, "i16", "I32"))

StepI32Load16U ==
  /\ Fetches("I32Load16U")
  /\ DriverStep(LoadExtend(Advanced, CurrentInst.a, "u16", "I32"))

StepI64Load8S ==
  /\ Fetches("I64Load8S")
  /\ DriverStep(LoadExtend(Advanced, CurrentInst.a, "i8", "I64"))

StepI64Load8U ==
  /\ Fetches("I64Load8U")
  /\ DriverStep(LoadExtend(Advanced, CurrentInst.a, "u8", "I64"))

StepI64Load16S ==
  /\ Fetches("I64Load16S")
  /\ DriverStep(LoadExtend(Advanced, CurrentInst.a, "i16", "I64"))

StepI64Load16U ==
  /\ Fetches("I64Load16U")
  /\ DriverStep(LoadExtend(Advanced, CurrentInst.a, "u16", "I64"))

StepI64Load32S ==
  /\ Fetches("I64Load32S")
  /\ DriverStep(LoadExtend(Advanced, CurrentInst.a, "i32", "I64"))

StepI64Load32U ==
  /\ Fetches("I64Load32U")
  /\ DriverStep(LoadExtend(Advanced, CurrentInst.a, "u32", "I64"))

StepI64Store ==
  /\ Fetches("I64Store")
  /\ DriverStep(Store(Advanced, CurrentInst.a, "I64"))

StepF32Store ==
  /\ Fetches("F32Store")
  /\ DriverStep(Store(Advanced, CurrentInst.a, "F32"))

StepF64Store ==
  /\ Fetches("F64Store")
  /\ DriverStep(Store(Advanced, CurrentInst.a, "F64"))

StepI32Store8 ==
  /\ Fetches("I32Store8")
  /\ DriverStep(StoreWithWidth(Advanced, CurrentInst.a, "I32", 1))

StepI32Store16 ==
  /\ Fetches("I32Store16")
  /\ DriverStep(StoreWithWidth(Advanced, CurrentInst.a, "I32", 2))

StepI64Store8 ==
  /\ Fetches("I64Store8")
  /\ DriverStep(StoreWithWidth(Advanced, CurrentInst.a, "I64", 1))

StepI64Store16 ==
  /\ Fetches("I64Store16")
  /\ DriverStep(StoreWithWidth(Advanced, CurrentInst.a, "I64", 2))

StepI64Store32 ==
  /\ Fetches("I64Store32")
  /\ DriverStep(StoreWithWidth(Advanced, CurrentInst.a, "I64", 4))

StepI32DivS ==
  /\ Fetches("I32DivS")
  /\ DriverStep(TryBinop(Advanced, "I32", "div_s"))

StepI32DivU ==
  /\ Fetches("I32DivU")
  /\ DriverStep(TryBinop(Advanced, "I32", "div_u"))

StepI32RemS ==
  /\ Fetches("I32RemS")
  /\ DriverStep(TryBinop(Advanced, "I32", "rem_s"))

StepI32RemU ==
  /\ Fetches("I32RemU")
  /\ DriverStep(TryBinop(Advanced, "I32", "rem_u"))

StepI64DivS ==
  /\ Fetches("I64DivS")
  /\ DriverStep(TryBinop(Advanced, "I64", "div_s"))

StepI64DivU ==
  /\ Fetches("I64DivU")
  /\ DriverStep(TryBinop(Advanced, "I64", "div_u"))

StepI64RemS ==
  /\ Fetches("I64RemS")
  /\ DriverStep(TryBinop(Advanced, "I64", "rem_s"))

StepI64RemU ==
  /\ Fetches("I64RemU")
  /\ DriverStep(TryBinop(Advanced, "I64", "rem_u"))

StepGlobalGet ==
  /\ Fetches("GlobalGet")
  /\ DriverStep(ExecGlobalGet(Advanced, CurrentInst))

StepGlobalSet ==
  /\ Fetches("GlobalSet")
  /\ DriverStep(ExecGlobalSet(Advanced, CurrentInst))

StepI32Mul ==
  /\ Fetches("I32Mul")
  /\ DriverStep(ExecI32Mul(Advanced, CurrentInst))

\* the default arm of the match: an instruction kind the match does not name
StepUnimplemented ==
  /\ \E op \in UnimplementedOps : Fetches(op)
  /\ DriverStep(Panic(Advanced))

\* simple_invoke_func on a host function: the callback is called with the
\* arguments and no executor is made
StepHostEntry ==
  /\ result.kind = "Running"
  /\ FuncGlobal(entry).host # "none"
  /\ \E args \in [1..Len(FuncGlobal(entry).params) -> ArgVals] :
       \E h \in { HostCall(FuncGlobal(entry), args) } :
         result' = (IF h.ok THEN [kind |-> "Ok", values |-> h.results, err |-> NoTrap]
                    ELSE [kind |-> "HostExecutionError", values |-> <<>>, err |-> NoTrap])
  /\ UNCHANGED <<pc, stack, mem, signal, trap, steps, breakFuncs, entry,
                 overflowChecks, globals, intercepted>>
  /\ UNCHANGED tableVars
  /\ UNCHANGED constVars

Next ==
  \/ StepUnreachable
  \/ StepNop
  \/ StepBlock
  \/ StepLoop
  \/ StepIf
  \/ StepElse
  \/ StepEnd
  \/ StepBr
  \/ StepBrIf
  \/ StepBrTable
  \/ StepReturn
  \/ StepCall
  \/ StepCallIndirect
  \/ StepDrop
  \/ StepSelect
  \/ StepLocalGet
  \/ StepLocalSet
  \/ StepLocalTee
  \/ StepI32Const
  \/ StepI64Const
  \/ StepI32Add
  \/ StepI32Sub
  \/ StepI32Eqz
  \/ StepI32Load
  \/ StepI32Store
  \/ StepMemorySize
  \/ StepMemoryGrow
  \/ StepI64Load
  \/ StepF32Load
  \/ StepF64Load
  \/ StepI32Load8S
  \/ StepI32Load8U
  \/ StepI32Load16S
  \/ StepI32Load16U
  \/ StepI64Load8S
  \/ StepI64Load8U
  \/ StepI64Load16S
  \/ StepI64Load16U
  \/ StepI64Load32S
  \/ StepI64Load32U
  \/ StepI64Store
  \/ StepF32Store
  \/ StepF64Store
  \/ StepI32Store8
  \/ StepI32Store16
  \/ StepI64Store8
  \/ StepI64Store16
  \/ StepI64Store32
  \/ StepI32DivS
  \/ StepI32DivU
  \/ StepI32RemS
  \/ StepI32RemU
  \/ StepI64DivS
  \/ StepI64DivU
  \/ StepI64RemS
  \/ StepI64RemU
  \/ StepGlobalGet
  \/ StepGlobalSet
  \/ StepI32Mul
  \/ StepUnimplemented
  \/ StepHostEntry

Spec == Init /\ [][Next]_vars

\* one more iteration of the driver's loop: execute_step is called again
LoopIteration ==
  /\ result.kind = "Running"
  /\ steps < MaxSteps
  /\ FuncGlobal(entry).host = "none"
  /\ pc.inst < Len(FuncGlobal(pc.func).code)
  /\ steps' = steps + 1

\* simple_invoke_func runs its loop without pause: as long as the run has
\* not ended, the next execute_step is taken
LiveSpec == LiveInit /\ [][Next]_vars /\ WF_steps(LoopIteration)

(***************************************************************************)
(* The table on its own: a table is created with `new`, then initialize    *)
(* and get_at are called on it in any order with any arguments.  The       *)
(* executor stands still.                                                  *)
(***************************************************************************)
TableFuncs == { FuncAddr(1, 0), FuncAddr(1, 1) }

DataChoices == UNION { [1..n -> TableFuncs] : n \in 0..MaxData }

Offsets == (0..(MaxInitial + 1)) \cup {UsizeMax - 1, UsizeMax}

Indices == (0..(MaxInitial + 1)) \cup {UsizeMax}

ExecutorIdle ==
  /\ overflowChecks = FALSE
  /\ entry = 1
  /\ breakFuncs = {}
  /\ pc = ProgramCounter(1, 1, 0)
  /\ stack = <<>>
  /\ mem = [pages |-> InitialPages, max |-> MaximumPages, bytes |-> InitialData]
  /\ signal = "None"
  /\ trap = NoTrap
  /\ result = Running
  /\ steps = 0
  /\ intercepted = <<>>

TableInit ==
  \E initial \in 0..MaxInitial :
    \E maximum \in { <<>>, <<MaxInitial>> } :
      /\ table = TableNew(initial, maximum)
      /\ tableRet = TableRet("new", initial, <<>>, TRUE, FuncAddr(0, 0), NoTableError)
      /\ tableWritten = NeverWritten
      /\ tableOps = 0
      /\ ExecutorIdle
      /\ globals = InitialGlobals
      /\ constEval = ConstIdle
      /\ numEval = NumIdle

StepInitialize ==
  /\ tableOps < MaxTableOps
  /\ \E offset \in Offsets :
       \E data \in DataChoices :
         \E r \in { Initialize(table, offset, data) } :
           /\ table' = r.table
           /\ tableRet' = TableRet("initialize", offset, data, r.ok, FuncAddr(0, 0), r.err)
           /\ tableWritten' = (IF offset <= BufferLen(table) - Len(data)
                               THEN Overlay(tableWritten, offset, data)
                               ELSE tableWritten)
  /\ tableOps' = tableOps + 1
  /\ UNCHANGED execVars
  /\ UNCHANGED constVars

StepGetAt ==
  /\ tableOps < MaxTableOps
  /\ \E index \in Indices :
       \E r \in { GetAt(table, index) } :
         tableRet' = TableRet("get_at", index, <<>>, r.ok, r.addr, r.err)
  /\ tableOps' = tableOps + 1
  /\ UNCHANGED <<table, tableWritten>>
  /\ UNCHANGED execVars
  /\ UNCHANGED constVars

TableNext ==
  \/ StepInitialize
  \/ StepGetAt

TableSpec == TableInit /\ [][TableNext]_vars

(***************************************************************************)
(* The init-expression evaluator on its own: eval_const_expr is called     *)
(* once on the first instruction of an init expression, against a store    *)
(* whose globals hold any of a few values.  The executor and the table     *)
(* stand still.                                                            *)
(***************************************************************************)
\* eval_const_expr: the value of the instruction transform_inst decoded
EvalConstExpr(inst, gs) ==
  CASE inst.op = "I32Const" -> [kind |-> "Ok", val |-> VI32(inst.a)]
    [] inst.op = "I64Const" -> [kind |-> "Ok", val |-> VI64(inst.a)]
    [] inst.op = "F32Const" -> [kind |-> "Ok", val |-> VF32(inst.a)]
    [] inst.op = "F64Const" -> [kind |-> "Ok", val |-> VF64(inst.a)]
    [] inst.op = "GlobalGet" -> [kind |-> "Ok", val |-> GlobalValue(gs, inst.a)]
    [] OTHER -> [kind |-> "Panic", val |-> NoValue]

\* the immediates of the const instructions: i32 values, f32 bit patterns,
\* and <<hi, lo>> halves of i64 values and f64 bit patterns
Imm32 == { 0, 1, -1, MinI32, MaxI32, 2143289345 }

Imm64 == { Int64(0), Int64(-1), <<MinI32, 0>>, <<305419896, -1698898192>>, <<2146959360, 1>> }

\* instructions that are neither a const nor a GlobalGet
OtherOps == { "Nop", "Unreachable", "End", "I32Add", "I32Eqz", "Drop", "MemorySize" }

GlobalChoices ==
  { << VI32(a), VI32(8), VI32(c), VI32(d) >> : a \in {7, -1}, c \in {11, 0}, d \in {0, 5} }

ConstPending(inst) == [expr |-> inst, done |-> FALSE, kind |-> "None", val |-> NoValue]

ConstInit ==
  /\ \/ \E v \in Imm32 : \E op \in {"I32Const", "F32Const"} : constEval = ConstPending(InsA(op, v))
     \/ \E w \in Imm64 : \E op \in {"I64Const", "F64Const"} : constEval = ConstPending(InsA(op, w))
     \/ \E i \in 0..(Len(StoreGlobals) - 1) : constEval = ConstPending(InsA("GlobalGet", i))
     \/ \E op \in OtherOps : constEval = ConstPending(Ins(op))
     \/ \E i \in 0..1 : \E op \in {"LocalGet", "Call"} : constEval = ConstPending(InsA(op, i))
  /\ globals \in GlobalChoices
  /\ numEval = NumIdle
  /\ ExecutorIdle
  /\ TableInstantiated

StepEvalConstExpr ==
  /\ ~constEval.done
  /\ \E r \in { EvalConstExpr(constEval.expr, globals) } :
       constEval' = [constEval EXCEPT !.done = TRUE, !.kind = r.kind, !.val = r.val]
  /\ UNCHANGED numEval
  /\ UNCHANGED execVars
  /\ UNCHANGED tableVars

ConstNext == StepEvalConstExpr

ConstSpec == ConstInit /\ [][ConstNext]_vars

(***************************************************************************)
(* The integer binary operators on their own: one of the arms that go      *)
(* through Executor::binop is applied once to two operands of its type.    *)
(* The executor's run, the table and the init expressions stand still.     *)
(***************************************************************************)
Operands32 ==
  { VI32(v) : v \in { 0, 1, 2, -1, 31, 32, 33, 65535, 305419896, MinI32, MaxI32 } }

Operands64 ==
  { VI64(w) : w \in { Int64(0), Int64(1), Int64(-1), Int64(63), Int64(64), Int64(65),
                      <<1, 0>>, <<0, -1>>, <<MinI32, 0>>, <<MaxI32, -1>>,
                      <<305419896, -1698898192>> } }

NumPending(op, lhs, rhs) ==
  [op |-> op, lhs |-> lhs, rhs |-> rhs, done |-> FALSE, sig |-> "None", out |-> <<>>]

NumInit ==
  /\ \E op \in BinopKinds :
       \E lhs, rhs \in (IF SubSeq(op, 1, 3) = "I32" THEN Operands32 ELSE Operands64) :
         numEval = NumPending(op, lhs, rhs)
  /\ constEval = ConstIdle
  /\ globals = InitialGlobals
  /\ ExecutorIdle
  /\ TableInstantiated

StepBinop ==
  /\ ~numEval.done
  /\ \E r \in { ExecBinop([stack |-> << SV(numEval.lhs), SV(numEval.rhs) >>],
                          Ins(numEval.op)) } :
       numEval' = [numEval EXCEPT !.done = TRUE, !.sig = r.sig, !.out = r.st.stack]
  /\ UNCHANGED execVars
  /\ UNCHANGED tableVars
  /\ UNCHANGED constEval

NumNext == StepBinop

NumSpec == NumInit /\ [][NumNext]_vars

(***************************************************************************)
(* The narrowing stores of the older executor generation                   *)
(* (wasminspect-core/src/interpreter/executor.rs), which panics where the  *)
(* newer one returns a trap.  They are applied to executor states that are *)
(* about to execute a narrowing store of narrow32 or narrow64.             *)
(***************************************************************************)
NarrowStores == {"I32Store8", "I32Store16", "I64Store8", "I64Store16", "I64Store32"}

\* the width argument of the I32Store8..I64Store32 arms
OldStoreWidth(op) ==
  CASE op \in {"I32Store8", "I64Store8"} -> 8
    [] op \in {"I32Store16", "I64Store16"} -> 16
    [] OTHER -> 32

\* MemoryInstance::initialize of the older generation: copy the buffer to addr
MemInitialize(m, addr, buf) == MemStoreBytes(m, addr, buf)

\* store_with_width::<T> of the older generation: both pops are pop_as, which
\* panics on a value of another type; the bounds check compares addr + width
\* with the length of the memory and panics; the buffer written has
\* size_of::<T>() bytes
OldStoreWithWidth(st, offset, ty, width) ==
  LET v == PopValue(st.stack)
      b == PopValue(v.stack)
  IN IF ~v.ok \/ v.val.ty # ty THEN Panic(WithStack(st, v.stack))
     ELSE IF ~b.ok \/ b.val.ty # "I32" THEN Panic(WithStack(st, b.stack))
     ELSE LET addr == EffectiveAddr(b.val.v, offset, st.checks)
              st1 == WithStack(st, b.stack)
          IN IF addr = AddrOverflow \/ ~HasFrame(b.stack) THEN Panic(st1)
             ELSE IF ~InBounds(st.mem, addr, width) THEN Panic(st1)
             ELSE Ok([st1 EXCEPT !.mem = MemInitialize(st.mem, addr, IntoLE(v.val))])

\* the base addresses and the values stored
OldBases ==
  { 0, 1, 5, PageSize - 33, PageSize - 32, PageSize - 31, PageSize - 17, PageSize - 16,
    PageSize - 15, PageSize - 9, PageSize - 8, PageSize - 7, PageSize - 5, PageSize - 4,
    PageSize - 3, PageSize - 2, PageSize - 1, PageSize, -1, MinI32 }

OldValues(ty) ==
  IF ty = "I32"
  THEN { VI32(0), VI32(-1), VI32(255), VI32(256), VI32(305419896) }
  ELSE { VI64(Int64(0)), VI64(Int64(-1)), VI64(Int64(255)), VI64(<<0, 1>>),
         VI64(<<305419896, -1698898192>>) }

OldInit ==
  /\ \E e \in ExecAddrs :
       \E i \in 0..(Len(FuncGlobal(e).code) - 1) :
         /\ FuncGlobal(e).name \in {"narrow32", "narrow64"}
         /\ FuncGlobal(e).code[i + 1].op \in NarrowStores
         /\ \E base \in OldBases :
              \E val \in OldValues(FuncGlobal(e).params[2]) :
                /\ entry = e
                /\ pc = ProgramCounter(FuncGlobal(e).module, e, i)
                /\ stack = PushValue(PushValue(
                              PushLabel(SetFrame(<<>>, NewFrame(e, FuncGlobal(e),
                                                                << VI32(base), val >>, <<>>)),
                                        LabelReturn(Len(FuncGlobal(e).returns))),
                              VI32(base)), val)
  /\ overflowChecks \in BOOLEAN
  /\ breakFuncs = {}
  /\ mem = [pages |-> InitialPages, max |-> MaximumPages, bytes |-> InitialData]
  /\ signal = "None"
  /\ trap = NoTrap
  /\ result = Running
  /\ steps = 0
  /\ intercepted = <<>>
  /\ globals = InitialGlobals
  /\ constEval = ConstIdle
  /\ numEval = NumIdle
  /\ TableInstantiated

\* one execute_step of the older generation on a narrowing store
StepOldStore ==
  /\ result.kind = "Running"
  /\ steps = 0
  /\ CurrentInst.op \in NarrowStores
  /\ \E r \in { OldStoreWithWidth(Advanced, CurrentInst.a, SubSeq(CurrentInst.op, 1, 3),
                                  OldStoreWidth(CurrentInst.op)) } :
       /\ pc' = r.st.pc
       /\ stack' = r.st.stack
       /\ mem' = r.st.mem
       /\ signal' = r.sig
       /\ result' = (IF r.sig = "Panic" THEN [Running EXCEPT !.kind = "Panic"] ELSE Running)
  /\ steps' = 1
  /\ UNCHANGED <<trap, globals, intercepted, breakFuncs, entry, overflowChecks>>
  /\ UNCHANGED tableVars
  /\ UNCHANGED constVars

OldNext == StepOldStore

OldSpec == OldInit /\ [][OldNext]_vars

(***************************************************************************)
(* Helpers of the properties: the static block structure of a function     *)
(* body and views of the stack.                                            *)
(***************************************************************************)
IsOpen(code, i) == code[i + 1].op \in {"Block", "Loop", "If"}

\* opens minus Ends over the instruction indices a..b
RECURSIVE Nesting(_, _, _)
Nesting(code, a, b) ==
  IF a > b THEN 0
  ELSE (IF IsOpen(code, a) THEN 1 ELSE IF code[a + 1].op = "End" THEN -1 ELSE 0)
       + Nesting(code, a + 1, b)

\* the End that closes the Block, Loop or If at index o
ClosingEnd(code, o) ==
  CHOOSE j \in (o + 1)..(Len(code) - 1) :
    /\ code[j + 1].op = "End"
    /\ Nesting(code, o + 1, j) = -1
    /\ \A k \in (o + 1)..(j - 1) : Nesting(code, o + 1, k) >= 0

\* the Block, Loop and If instructions whose body holds index i
Enclosing(code, i) == {o \in 0..(i - 1) : IsOpen(code, o) /\ ClosingEnd(code, o) >= i}

\* the construct d levels out of index i (0 is the innermost)
EnclosingAt(code, i, d) ==
  CHOOSE o \in Enclosing(code, i) : Cardinality({x \in Enclosing(code, i) : x > o}) = d

\* the Else of the If at index o, or -1
OwnElse(code, o) ==
  LET es == {e \in (o + 1)..(ClosingEnd(code, o) - 1) :
               code[e + 1].op = "Else" /\ \A x \in Enclosing(code, e) : x <= o}
  IN IF es = {} THEN -1 ELSE CHOOSE e \in es : TRUE

ActCount(s) == Cardinality({i \in 1..Len(s) : IsActivation(s[i])})

LabelPositions(s) == {i \in (TopActivation(s) + 1)..Len(s) : IsLabel(s[i])}

\* the stack index of the label d levels out in the current frame
LabelIndex(s, d) ==
  CHOOSE i \in LabelPositions(s) : Cardinality({j \in LabelPositions(s) : j > i}) = d

TopN(s, n) == SubSeq(s, Len(s) - n + 1, Len(s))

AllValues(s) == \A i \in 1..Len(s) : IsValue(s[i])

Code == FuncGlobal(pc.func).code

AtInst == result.kind = "Running" /\ pc.inst < Len(Code)

EntryReturns == FuncGlobal(entry).returns

\* the entry function is a defined one: the driver has made an executor
DefinedEntry == FuncGlobal(entry).host = "none"

(***************************************************************************)
(* C1 (as stated): the driver continues on Next and on Breakpoint, stops   *)
(* at the first End or trap, and on End returns exactly the declared       *)
(* number of return values.                                                *)
(***************************************************************************)
C1_EndReturnsDeclaredValues ==
  signal = "End" => result.kind = "Ok" /\ Len(result.values) = Len(EntryReturns)

(***************************************************************************)
(* C1 (amended): every step of the driver starts while no End, trap or     *)
(* panic has been seen; Next and Breakpoint leave the driver running; a    *)
(* trap ends it with ExecutionError; on End the stack holds exactly the    *)
(* declared number of values, which the driver pops topmost first: it      *)
(* returns them when each has its declared type, and ReturnValueError at   *)
(* the first one that has not.                                             *)
(***************************************************************************)
C1_DriverStep ==
  /\ signal \in {"None", "Next", "Breakpoint"}
  /\ result.kind = "Running"
  /\ signal' \in {"Next", "Breakpoint"} => result' = Running
  /\ signal' = "Trap" => result'.kind = "ExecutionError"
  /\ signal' = "End" =>
       LET body == ExecBody(Advanced, CurrentInst, breakFuncs)
           n == Len(EntryReturns)
           popped == Reverse(TopN(body.st.stack, n))
       IN /\ Len(body.st.stack) = n
          /\ AllValues(body.st.stack)
          /\ IF \A i \in 1..n : popped[i].val.ty = EntryReturns[i]
             THEN /\ result'.kind = "Ok"
                  /\ result'.values = [i \in 1..n |-> popped[i].val]
                  /\ stack' = <<>>
             ELSE result'.kind = "ReturnValueError.TypeMismatchReturnValue"

C1_Driver == [][C1_DriverStep]_vars

\* a run through breakpoints that ended with the declared value
C1_Witness ==
  /\ entry = 12
  /\ breakFuncs # {}
  /\ signal = "End"
  /\ result.kind = "Ok"
  /\ Len(result.values) = 1

(***************************************************************************)
(* C2: a trap raised by the body of an instruction is the result of that   *)
(* same execute_step (the termination check replaces it by neither End nor *)
(* Next), the driver returns it as ExecutionError, and no step follows.    *)
(***************************************************************************)
C2_TrapStep ==
  /\ result.kind = "Running"
  /\ DefinedEntry =>
     LET body == ExecBody(Advanced, CurrentInst, breakFuncs)
     IN body.sig = "Trap" =>
          /\ signal' = "Trap"
          /\ trap' = body.trap
          /\ result' = [kind |-> "ExecutionError", values |-> <<>>, err |-> body.trap]

C2_TrapsSurface == [][C2_TrapStep]_vars

\* a trap raised two activations deep has ended the run
C2_Witness ==
  /\ entry = 17
  /\ ActCount(stack) = 2
  /\ signal = "Trap"
  /\ trap = TrapUnreachable
  /\ result.kind = "ExecutionError"

(***************************************************************************)
(* C3: stack balance across a call.  The step that calls a defined         *)
(* function removes the |params| arguments from the caller's stack and     *)
(* puts the activation and its Return label in their place; while the      *)
(* activation lives, no step without a trap changes an entry below it; the *)
(* step that pops it without a trap (End at function level, Return, or a   *)
(* branch to the Return label) leaves the entries below the activation     *)
(* followed by the |returns| results.  So the caller's stack after the     *)
(* call is its stack before the call with the arguments replaced by the    *)
(* results.  In `caller`, the value 77 and the open block below the        *)
(* argument are there unchanged after each of its three calls.             *)
(***************************************************************************)
C3_CallStep ==
  LET k == Len(FuncGlobal(pc'.func).params)
      \* CallIndirect pops the table index from above the arguments
      x == IF CurrentInst.op = "CallIndirect" THEN 1 ELSE 0
      b == Len(stack) - x - k
  IN /\ CurrentInst.op \in {"Call", "CallIndirect"}
     /\ b > TopActivation(stack)
     /\ \A i \in (b + 1)..Len(stack) : IsValue(stack[i])
     /\ Len(stack') = b + 2
     /\ SubSeq(stack', 1, b) = SubSeq(stack, 1, b)
     /\ IsActivation(stack'[b + 1])
     /\ SubSeq(stack'[b + 1].frame.locals, 1, k) = [i \in 1..k |-> stack[b + i].val]
     /\ stack'[b + 2] = SL(LabelReturn(Len(FuncGlobal(pc'.func).returns)))

C3_ReturnStep ==
  LET p == TopActivation(stack)
      n == Len(FuncGlobal(pc.func).returns)
  IN stack' = SubSeq(stack, 1, p - 1) \o TopN(stack, n)

C3_CallerScenario ==
  entry = 11 /\ pc.func = 11 /\ pc.inst \in {4, 5, 6} /\ result.kind = "Running" =>
    /\ Len(stack) = 5
    /\ SubSeq(stack, 2, 4) = <<SL(LabelReturn(1)), SV(VI32(77)), SL(LabelBlock(1))>>
    /\ IsActivation(stack[1]) /\ IsValue(stack[5])

C3_Step ==
  DefinedEntry /\ signal' # "Trap" /\ result'.kind # "Panic" =>
       /\ ActCount(stack') = ActCount(stack) + 1 => C3_CallStep
       /\ ActCount(stack') = ActCount(stack) =>
            LET p == TopActivation(stack)
            IN /\ Len(stack') >= p
               /\ IsActivation(stack'[p])
               /\ SubSeq(stack', 1, p - 1) = SubSeq(stack, 1, p - 1)
       /\ ActCount(stack') = ActCount(stack) - 1 /\ ActCount(stack) >= 2 => C3_ReturnStep
       /\ ActCount(stack') \in {ActCount(stack) - 1, ActCount(stack), ActCount(stack) + 1}

C3_StackBalance == [](C3_CallerScenario) /\ [][C3_Step]_vars

\* back in `caller` after callee_br returned by a branch to its Return
\* label, with the caller's value and open block below the result
C3_Witness ==
  /\ entry = 11
  /\ pc.func = 11
  /\ pc.inst = 6
  /\ ActCount(stack) = 1
  /\ Len(stack) = 5
  /\ stack[3] = SV(VI32(77))
  /\ IsValue(stack[5])

(***************************************************************************)
(* C4: when the End of a Block, Loop or If is executed without a branch,   *)
(* the label of the block is removed, the entries below it are unchanged,  *)
(* and the number of values left in its place is the arity of the block's  *)
(* type: the stack height is the height at block entry plus the arity, and *)
(* values the block leaves beyond its arity do not survive.                *)
(***************************************************************************)
C4_BlockEndStep ==
  (/\ AtInst
   /\ CurrentInst.op = "End"
   /\ HasFrame(stack)
   /\ ~IsFuncTopLevel(stack)
   /\ signal' = "Next")
  => LET o == EnclosingAt(Code, pc.inst, 0)
         li == LabelIndex(stack, 0)
         n == BlockArity(Code[o + 1].ty)
     IN /\ SubSeq(stack', 1, li - 1) = SubSeq(stack, 1, li - 1)
        /\ \A i \in li..Len(stack') : IsValue(stack'[i])
        /\ Len(stack') = (li - 1) + n

C4_BlockEndHeight == [][C4_BlockEndStep]_vars

(***************************************************************************)
(* C5: Br d whose target, the label d levels out in the current frame, is  *)
(* a Block or If label of arity n, with n values on top of the stack:      *)
(* the step removes d+1 labels of the current frame and every value above  *)
(* the target label except the top n values, which stay in their order,    *)
(* leaves everything below the target label alone, and sets the pc just    *)
(* after the End that closes the target block.  br_nested returns          *)
(* [I32(42)] and leaves the stack empty.                                   *)
(***************************************************************************)
C5_BrStep ==
  (/\ AtInst
   /\ CurrentInst.op = "Br"
   /\ HasFrame(stack)
   /\ CurrentInst.a < Len(CurrentFrameLabels(stack))
   /\ stack[LabelIndex(stack, CurrentInst.a)].label.kind \in {"Block", "If"}
   /\ LET n == stack[LabelIndex(stack, CurrentInst.a)].label.arity
      IN \A i \in (Len(stack) - n + 1)..Len(stack) : i > 0 /\ IsValue(stack[i]))
  => LET d == CurrentInst.a
         li == LabelIndex(stack, d)
         n == stack[li].label.arity
     IN /\ signal' = "Next"
        /\ stack' = SubSeq(stack, 1, li - 1) \o TopN(stack, n)
        /\ Len(CurrentFrameLabels(stack')) = Len(CurrentFrameLabels(stack)) - (d + 1)
        /\ pc' = [pc EXCEPT !.inst = ClosingEnd(Code, EnclosingAt(Code, pc.inst, d)) + 1]

C5_BrNested ==
  /\ entry = 2 /\ result.kind # "Running" =>
       /\ result.kind = "Ok"
       /\ result.values = <<VI32(42)>>
       /\ stack = <<>>
  /\ entry = 2 /\ pc.inst = 13 /\ result.kind = "Running" =>
       SubSeq(stack, 2, Len(stack)) = <<SL(LabelReturn(1)), SV(VI32(42))>>

C5_Br == [](C5_BrNested) /\ [][C5_BrStep]_vars

\* br_nested just after its br 2: three labels and three values are gone
C5_Witness ==
  /\ entry = 2
  /\ pc.inst = 13
  /\ signal = "Next"
  /\ Len(stack) = 3
  /\ Top(stack) = SV(VI32(42))

\* the depth the instruction at pc branches to, -1 when it takes no branch
BranchDepthAtPc ==
  IF ~AtInst \/ stack = <<>> THEN -1
  ELSE CASE CurrentInst.op = "Br" -> CurrentInst.a
         [] CurrentInst.op = "BrIf" /\ IsValue(Top(stack)) ->
              IF Top(stack).val = VI32(0) THEN -1 ELSE CurrentInst.a
         [] CurrentInst.op = "BrTable" /\ IsValue(Top(stack)) /\ Top(stack).val.ty = "I32" ->
              IF Top(stack).val.v >= 0 /\ Top(stack).val.v < Len(CurrentInst.tbl)
              THEN CurrentInst.tbl[Top(stack).val.v + 1]
              ELSE CurrentInst.a
         [] OTHER -> -1

\* the stack once the operand of BrIf or BrTable is popped
StackAtBranch == IF CurrentInst.op = "Br" THEN stack ELSE Front(stack)

(***************************************************************************)
(* C6: a branch (Br, a taken BrIf, BrTable) whose target is a Loop label   *)
(* sets the pc to the index of the Loop instruction, and leaves the stack  *)
(* as it was below the Loop label: every value above it is discarded and   *)
(* the labels down to and including it are popped.  The step at a Loop     *)
(* instruction pushes the label of that Loop and moves to the first body   *)
(* instruction, where the current frame always carries one label for the   *)
(* function and one for each construct that encloses the instruction: the  *)
(* same number on every iteration.                                         *)
(***************************************************************************)
C6_BranchToLoopStep ==
  (/\ BranchDepthAtPc >= 0
   /\ HasFrame(StackAtBranch)
   /\ BranchDepthAtPc < Len(CurrentFrameLabels(StackAtBranch))
   /\ stack[LabelIndex(StackAtBranch, BranchDepthAtPc)].label.kind = "Loop")
  => LET li == LabelIndex(StackAtBranch, BranchDepthAtPc)
         loop == EnclosingAt(Code, pc.inst, BranchDepthAtPc)
     IN /\ signal' = "Next"
        /\ Code[loop + 1].op = "Loop"
        /\ pc' = [pc EXCEPT !.inst = loop]
        /\ stack' = SubSeq(stack, 1, li - 1)

C6_LoopStep ==
  AtInst /\ CurrentInst.op = "Loop" =>
    /\ signal' = "Next"
    /\ stack' = Append(stack, SL(LabelLoop(pc.inst)))
    /\ pc' = [pc EXCEPT !.inst = pc.inst + 1]

C6_LabelsAtLoopBody ==
  AtInst /\ pc.inst > 0 /\ Code[pc.inst].op = "Loop" /\ HasFrame(stack) =>
    /\ Len(CurrentFrameLabels(stack)) = Cardinality(Enclosing(Code, pc.inst)) + 1
    /\ Top(stack) = SL(LabelLoop(pc.inst - 1))

C6_Step == C6_BranchToLoopStep /\ C6_LoopStep

C6_Loop == [](C6_LabelsAtLoopBody) /\ [][C6_Step]_vars

\* the third pass through the body of `loop`
C6_Witness ==
  /\ entry = 3
  /\ pc.inst = 1
  /\ steps = 15
  /\ Len(CurrentFrameLabels(stack)) = 2
  /\ result.kind = "Running"

(***************************************************************************)
(* C7: If, with an i32 condition on top of the stack, pops it and pushes   *)
(* an If label.  A nonzero condition continues at the first instruction of *)
(* the then-branch.  Condition 0 puts the pc just past the Else of this If *)
(* when it has one and on the End of this If otherwise; an Else or End of  *)
(* a construct nested in the then-branch is never the landing point.       *)
(***************************************************************************)
C7_IfStep ==
  (/\ AtInst
   /\ CurrentInst.op = "If"
   /\ stack # <<>>
   /\ IsValue(Top(stack))
   /\ Top(stack).val.ty = "I32")
  => /\ signal' = "Next"
     /\ stack' = Append(Front(stack), SL(LabelIf(BlockArity(CurrentInst.ty))))
     /\ pc'.func = pc.func /\ pc'.module = pc.module
     /\ Top(stack).val.v # 0 => pc'.inst = pc.inst + 1
     /\ Top(stack).val.v = 0 =>
          /\ OwnElse(Code, pc.inst) # -1 => pc'.inst = OwnElse(Code, pc.inst) + 1
          /\ OwnElse(Code, pc.inst) = -1 => pc'.inst = ClosingEnd(Code, pc.inst)
          /\ \A j \in (pc.inst + 1)..(pc'.inst - 1) :
               Code[j + 1].op \in {"Else", "End"} =>
                 \/ j = OwnElse(Code, pc.inst)
                 \/ \E o \in Enclosing(Code, j) : o > pc.inst

C7_If == [][C7_IfStep]_vars

\* if_no_else with condition 0: the pc is on the End of the outer If, past
\* the Else and the three Ends nested in its then-branch
C7_Witness ==
  /\ entry = 6
  /\ pc.inst = 11
  /\ steps = 2
  /\ signal = "Next"
  /\ Top(stack) = SL(LabelIf(0))

(***************************************************************************)
(* C8: BrTable, with an i32 index i on top of the stack, pops it and then  *)
(* does exactly what Br table[i] does when 0 <= i < table.len(), and       *)
(* exactly what Br default does for every other i, every negative i        *)
(* included: same stack, same pc, same signal or trap.  In br_table, with  *)
(* table [1 2 3] and default 0, index 0 continues after the second block,  *)
(* index 1 after the third, index 2 returns from the function, and every   *)
(* other index continues after the innermost block.  It always branches    *)
(* when the selected depth names a label of the frame, as validation       *)
(* ensures.                                                                *)
(***************************************************************************)
C8_BrTableStep ==
  (/\ AtInst
   /\ CurrentInst.op = "BrTable"
   /\ stack # <<>>
   /\ IsValue(Top(stack))
   /\ Top(stack).val.ty = "I32")
  => LET i == Top(stack).val.v
         d == IF i >= 0 /\ i < Len(CurrentInst.tbl)
              THEN CurrentInst.tbl[i + 1]
              ELSE CurrentInst.a
         br == TerminationCheck(ExecBr(WithStack(Advanced, Front(stack)), InsA("Br", d)))
     IN /\ pc' = br.st.pc
        /\ signal' = br.sig
        /\ trap' = br.trap
        /\ signal' # "End" => stack' = br.st.stack
        /\ d < Len(CurrentFrameLabels(stack)) => signal' \in {"Next", "End"}
        /\ entry = 7 =>
             /\ i = 0 => pc'.inst = 10 /\ signal' = "Next"
             /\ i = 1 => pc'.inst = 13 /\ signal' = "Next"
             /\ i = 2 => signal' = "End" /\ result'.kind = "Ok" /\ result'.values = <<VI32(0)>>
             /\ i \notin {0, 1, 2} => pc'.inst = 7 /\ signal' = "Next"

C8_BrTable == [][C8_BrTableStep]_vars

\* br_table with index -1 has taken the default branch
C8_Witness ==
  /\ entry = 7
  /\ stack # <<>>
  /\ IsActivation(stack[1])
  /\ stack[1].frame.locals = <<VI32(-1)>>
  /\ steps = 6
  /\ pc.inst = 7
  /\ signal = "Next"

\* the instructions that consume an i32 operand, and where that operand is
\* on the stack: the base address of a store lies under the stored value
ConsumesI32 ==
  {"If", "BrIf", "BrTable", "Select", "CallIndirect", "I32Load", "I32Store", "MemoryGrow"}

I32OperandIndex ==
  IF CurrentInst.op = "I32Store" THEN Len(stack) - 1 ELSE Len(stack)

(***************************************************************************)
(* C9: an instruction that consumes an i32 operand (If, BrIf, BrTable,     *)
(* the condition of Select, the index of CallIndirect, the base address of *)
(* a load or store, the delta of MemoryGrow) and finds a value with        *)
(* another type tag in its place traps with                                *)
(* UnexpectedStackValueType(I32, actual); it takes no branch (the pc is    *)
(* just past the instruction), leaves the memory alone and calls nothing.  *)
(***************************************************************************)
C9_I32OperandStep ==
  (/\ AtInst
   /\ CurrentInst.op \in ConsumesI32
   /\ I32OperandIndex > TopActivation(stack)
   /\ \A i \in I32OperandIndex..Len(stack) : IsValue(stack[i])
   /\ CurrentInst.op = "I32Store" => Top(stack).val.ty = "I32"
   /\ stack[I32OperandIndex].val.ty # "I32")
  => /\ signal' = "Trap"
     /\ trap' = TrapUnexpectedStackValueType("I32", stack[I32OperandIndex].val.ty)
     /\ pc' = [pc EXCEPT !.inst = pc.inst + 1]
     /\ mem' = mem
     /\ ActCount(stack') = ActCount(stack)

C9_I32OperandsChecked == [][C9_I32OperandStep]_vars

\* the stack indices of the activations
ActivationPositions(s) == {i \in 1..Len(s) : IsActivation(s[i])}

(***************************************************************************)
(* C10: Call of a defined function, with its arguments on the stack,       *)
(* pushes a new activation whose ret_pc is the caller's pc already         *)
(* advanced past the Call, pushes a Return label with the callee's number  *)
(* of results on it, and sets the pc to instruction 0 of the callee.  The  *)
(* step that pops an activation without a trap sets the pc to that         *)
(* ret_pc: the instruction just after the Call, in the caller, which is    *)
(* the function of the activation now on top.  At any depth of nested      *)
(* calls the pc is in the function of the top activation and every         *)
(* activation but the root holds the pc just after a call instruction of   *)
(* the function of the activation below it.                                *)
(***************************************************************************)
C10_CallStep ==
  (/\ AtInst
   /\ CurrentInst.op = "Call"
   /\ StoreFunc(FuncAddr(pc.module, CurrentInst.a)) # <<>>
   /\ FuncGlobal(StoreFunc(FuncAddr(pc.module, CurrentInst.a))[1]).host = "none"
   /\ LET k == Len(FuncGlobal(StoreFunc(FuncAddr(pc.module, CurrentInst.a))[1]).params)
      IN /\ Len(stack) - k > TopActivation(stack)
         /\ \A i \in (Len(stack) - k + 1)..Len(stack) : IsValue(stack[i]))
  => LET callee == StoreFunc(FuncAddr(pc.module, CurrentInst.a))[1]
     IN /\ signal' \in {"Next", "Breakpoint"}
        /\ ActCount(stack') = ActCount(stack) + 1
        /\ Len(stack') >= 2
        /\ IsActivation(stack'[Len(stack') - 1])
        /\ stack'[Len(stack') - 1].frame.func = callee
        /\ stack'[Len(stack') - 1].frame.ret_pc = <<[pc EXCEPT !.inst = pc.inst + 1]>>
        /\ Top(stack') = SL(LabelReturn(Len(FuncGlobal(callee).returns)))
        /\ pc' = ProgramCounter(FuncGlobal(callee).module, callee, 0)

C10_ReturnStep ==
  (/\ ActCount(stack') = ActCount(stack) - 1
   /\ ActCount(stack) >= 2
   /\ signal' # "Trap")
  => /\ CurrentInst.op \in {"End", "Return", "Br", "BrIf", "BrTable"}
     /\ pc' = CurrentFrame(stack).ret_pc[1]
     /\ pc'.func = CurrentFrame(stack').func
     /\ pc'.inst > 0
     /\ FuncGlobal(pc'.func).code[pc'.inst].op \in {"Call", "CallIndirect"}
     /\ signal' = "Next"

C10_Frames ==
  DefinedEntry /\ result.kind = "Running" =>
    /\ HasFrame(stack)
    /\ pc.func = CurrentFrame(stack).func
    /\ \A p \in ActivationPositions(stack) :
         IF p = 1 THEN stack[p].frame.ret_pc = <<>>
         ELSE /\ stack[p].frame.ret_pc # <<>>
              /\ LET ret == stack[p].frame.ret_pc[1]
                     below == CHOOSE q \in ActivationPositions(stack) :
                                /\ q < p
                                /\ \A x \in ActivationPositions(stack) : x < p => x <= q
                 IN /\ ret.func = stack[below].frame.func
                    /\ ret.inst > 0
                    /\ FuncGlobal(ret.func).code[ret.inst].op \in {"Call", "CallIndirect"}

C10_Step == C10_CallStep /\ C10_ReturnStep

C10_CallReturn == [](C10_Frames) /\ [][C10_Step]_vars

\* `outer` is running again, just after its Call, once `caller` and the
\* three callees below it have returned
C10_Witness ==
  /\ entry = 12
  /\ pc.func = 12
  /\ pc.inst = 3
  /\ ActCount(stack) = 1
  /\ steps > 3
  /\ result.kind = "Running"

(***************************************************************************)
(* C11: CallIndirect, with an i32 index on top of the stack, pops it and   *)
(* enters the function in that slot of table 0 only when the index is in   *)
(* bounds, the slot is initialized and the type of the function equals the *)
(* type the module declares at type_idx.  Otherwise it traps: out of       *)
(* bounds first, else uninitialized element, else                          *)
(* IndirectCallTypeMismatch; then no activation is pushed, the pc is just  *)
(* past the CallIndirect, and the arguments of the call are still on the   *)
(* stack, only the index being popped.                                     *)
(***************************************************************************)
C11_CallIndirectStep ==
  (/\ AtInst
   /\ CurrentInst.op = "CallIndirect"
   /\ stack # <<>>
   /\ IsValue(Top(stack))
   /\ Top(stack).val.ty = "I32")
  => LET i == Top(stack).val.v
         inb == i >= 0 /\ i < Len(ModuleTable(pc.module))
         set == inb /\ ModuleTable(pc.module)[i + 1] # <<>>
         callee == StoreFunc(ModuleTable(pc.module)[i + 1][1])[1]
         typed == set /\ FuncGlobal(callee).params = GetType(pc.module, CurrentInst.a).params
                      /\ FuncGlobal(callee).returns = GetType(pc.module, CurrentInst.a).returns
     IN /\ ~inb => trap' = TrapTableOutOfBounds(i)
        /\ inb /\ ~set => trap' = TrapTableUninitialized(i)
        /\ set /\ ~typed => trap' = TrapIndirectCallTypeMismatch
        /\ ~typed =>
             /\ signal' = "Trap"
             /\ stack' = Front(stack)
             /\ pc' = [pc EXCEPT !.inst = pc.inst + 1]
        /\ typed =>
             /\ signal' \in {"Next", "Breakpoint"}
             /\ pc' = ProgramCounter(FuncGlobal(callee).module, callee, 0)
             /\ ActCount(stack') = ActCount(stack) + 1
        /\ ActCount(stack') = ActCount(stack) + 1 => typed

C11_CallIndirect == [][C11_CallIndirectStep]_vars

\* the slot holds a function of the other type: the call has trapped with
\* its argument 4 still on the stack
C11_Witness ==
  /\ entry = 26
  /\ signal = "Trap"
  /\ trap = TrapIndirectCallTypeMismatch
  /\ pc.func = 26
  /\ pc.inst = 3
  /\ Len(stack) = 3
  /\ Top(stack) = SV(VI32(4))

(***************************************************************************)
(* Memory accesses as the claims see them: the instruction about to run,   *)
(* its operands on the stack, and the byte range it names.                 *)
(***************************************************************************)
LoadOps ==
  { "I32Load", "I64Load", "F32Load", "F64Load", "I32Load8S", "I32Load8U",
    "I32Load16S", "I32Load16U", "I64Load8S", "I64Load8U", "I64Load16S",
    "I64Load16U", "I64Load32S", "I64Load32U" }

StoreOps ==
  { "I32Store", "I64Store", "F32Store", "F64Store", "I32Store8", "I32Store16",
    "I64Store8", "I64Store16", "I64Store32" }

\* the number of bytes the access covers
AccessWidth(op) ==
  CASE op \in {"I32Load8S", "I32Load8U", "I64Load8S", "I64Load8U", "I32Store8", "I64Store8"} -> 1
    [] op \in {"I32Load16S", "I32Load16U", "I64Load16S", "I64Load16U", "I32Store16",
               "I64Store16"} -> 2
    [] op \in {"I32Load", "F32Load", "I64Load32S", "I64Load32U", "I32Store", "F32Store",
               "I64Store32"} -> 4
    [] OTHER -> 8

\* the value type the instruction pushes or stores
AccessType(op) ==
  CASE op \in {"F32Load", "F32Store"} -> "F32"
    [] op \in {"F64Load", "F64Store"} -> "F64"
    [] op \in {"I32Load", "I32Load8S", "I32Load8U", "I32Load16S", "I32Load16U", "I32Store",
               "I32Store8", "I32Store16"} -> "I32"
    [] OTHER -> "I64"

IsI32Entry(e) == IsValue(e) /\ e.val.ty = "I32"

\* a load with its base on the stack
LoadReady ==
  /\ AtInst
  /\ CurrentInst.op \in LoadOps
  /\ Len(stack) >= 1
  /\ IsI32Entry(Top(stack))

\* a store with its value and, below it, its base on the stack
StoreReady ==
  /\ AtInst
  /\ CurrentInst.op \in StoreOps
  /\ Len(stack) >= 2
  /\ IsValue(Top(stack))
  /\ Top(stack).val.ty = AccessType(CurrentInst.op)
  /\ IsI32Entry(stack[Len(stack) - 1])

AccessBase ==
  IF CurrentInst.op \in LoadOps THEN Top(stack).val.v ELSE stack[Len(stack) - 1].val.v

\* [base + offset, base + offset + width) lies inside the memory, base being
\* the unsigned reading of the operand
RangeInside(base, offset, width) ==
  /\ base >= 0
  /\ base <= MaxI32 - offset
  /\ base + offset <= MemLen(mem) - width

AccessInside == RangeInside(AccessBase, CurrentInst.a, AccessWidth(CurrentInst.op))

AccessTraps ==
  /\ signal' = "Trap"
  /\ trap' = TrapMemory
  /\ result' = [kind |-> "ExecutionError", values |-> <<>>, err |-> TrapMemory]
  /\ mem' = mem

\* the load pushed a value of its type whose low bytes are the bytes of the range
LoadReturnsRange ==
  /\ signal' = "Next"
  /\ mem' = mem
  /\ Len(stack') = Len(stack)
  /\ IsValue(Top(stack'))
  /\ Top(stack').val.ty = AccessType(CurrentInst.op)
  /\ SubSeq(IntoLE(Top(stack').val), 1, AccessWidth(CurrentInst.op))
       = MemLoadBytes(mem, AccessBase + CurrentInst.a, AccessWidth(CurrentInst.op))

(***************************************************************************)
(* C12: for all (base, offset, width), a load or store whose byte range    *)
(* [base+offset, base+offset+width) is not entirely inside the current     *)
(* memory traps with Memory(OutOfBounds) and leaves every memory byte      *)
(* unchanged; a load whose range is inside memory succeeds and returns     *)
(* exactly those bytes decoded little-endian.                              *)
(***************************************************************************)
C12_AccessStep ==
  (LoadReady \/ StoreReady) =>
    IF AccessInside THEN (CurrentInst.op \in LoadOps => LoadReturnsRange)
    ELSE AccessTraps

C12_MemoryBounds == [][C12_AccessStep]_vars

(***************************************************************************)
(* C13: the base of every load and store is read as an unsigned 32-bit     *)
(* integer before the offset is added: with a negative i32 base (bit 31    *)
(* set) and any offset the access traps with Memory(OutOfBounds), the      *)
(* memory being shorter than 2^31 bytes, and neither reads nor writes a    *)
(* low address reached by wrap-around.                                     *)
(***************************************************************************)
C13_NegativeBaseStep ==
  ((LoadReady \/ StoreReady) /\ AccessBase < 0) =>
    /\ signal' = "Trap"
    /\ trap' = TrapMemory
    /\ mem' = mem
    /\ stack' = (IF CurrentInst.op \in LoadOps THEN Front(stack)
                 ELSE SubSeq(stack, 1, Len(stack) - 2))

C13_UnsignedBase == [][C13_NegativeBaseStep]_vars

FullStoreOps == {"I32Store", "I64Store", "F32Store", "F64Store"}

RoundTripFuncs == {"rt_i32", "rt_i64", "rt_f32", "rt_f64"}

\* the bytes of the memory outside [addr, addr + width) and its size are the same
\* after the step
OnlyRangeWritten(addr, width) ==
  /\ mem'.pages = mem.pages
  /\ mem'.max = mem.max
  /\ \A x \in (DOMAIN mem.bytes) \cup (DOMAIN mem'.bytes) :
       (x < addr \/ x >= addr + width) => ByteAt(mem', x) = ByteAt(mem, x)

(***************************************************************************)
(* C14: store round-trip.  For every T in {i32, i64, f32, f64}, every      *)
(* value v of T and every in-bounds address a, T.store of v at a followed  *)
(* by T.load at a pushes a value of type T with exactly the bit pattern of *)
(* v, and the store changes no byte outside [a, a + sizeof(T)).            *)
(***************************************************************************)
C14_StoreStep ==
  (StoreReady /\ CurrentInst.op \in FullStoreOps /\ AccessInside) =>
    LET a == AccessBase + CurrentInst.a
        w == SizeOf(AccessType(CurrentInst.op))
    IN /\ signal' = "Next"
       /\ stack' = SubSeq(stack, 1, Len(stack) - 2)
       /\ w = AccessWidth(CurrentInst.op)
       /\ MemLoadBytes(mem', a, w) = IntoLE(Top(stack).val)
       /\ OnlyRangeWritten(a, w)

\* the load of a round-trip function, at the address its store wrote
C14_LoadStep ==
  (/\ AtInst
   /\ FuncGlobal(pc.func).name \in RoundTripFuncs
   /\ pc.inst = 4
   /\ LoadReady
   /\ AccessInside) =>
    LET v == CurrentFrame(stack).locals[2]
    IN /\ AccessBase = CurrentFrame(stack).locals[1].v
       /\ CurrentInst.a = Code[3].a
       /\ v.ty = AccessType(CurrentInst.op)
       /\ AccessType(Code[3].op) = v.ty
       /\ signal' = "Next"
       /\ stack' = Append(Front(stack), SV(v))
       /\ mem' = mem

C14_StoreRoundTrip == [][C14_StoreStep /\ C14_LoadStep]_vars

\* an f64 NaN with a payload stored across the end of the initial data and
\* loaded back
C14_Witness ==
  /\ FuncGlobal(entry).name = "rt_f64"
  /\ result.kind = "Running"
  /\ pc.inst = 5
  /\ CurrentFrame(stack).locals[1] = VI32(4)
  /\ Top(stack) = SV(VF64(<<2146959360, 1>>))
  /\ ByteAt(mem, 6) = InitialData[6]
  /\ ByteAt(mem, 7) = 1
  /\ ByteAt(mem, 14) = 127

NarrowStoreOps == StoreOps \ FullStoreOps

(***************************************************************************)
(* C15: the narrowing stores write exactly width bytes (i32.store8 and     *)
(* i64.store8: 1, i32.store16 and i64.store16: 2, i64.store32: 4), the     *)
(* low-order bytes of the value in little-endian order, at the effective   *)
(* address; every other memory byte is unchanged, and the bounds check     *)
(* uses the narrowed width, so a store8 to the last byte of memory         *)
(* succeeds.                                                               *)
(***************************************************************************)
C15_NarrowStoreStep ==
  (StoreReady /\ CurrentInst.op \in NarrowStoreOps /\ AccessInside) =>
    LET a == AccessBase + CurrentInst.a
        w == AccessWidth(CurrentInst.op)
    IN /\ w < SizeOf(AccessType(CurrentInst.op))
       /\ signal' = "Next"
       /\ stack' = SubSeq(stack, 1, Len(stack) - 2)
       /\ MemLoadBytes(mem', a, w) = SubSeq(IntoLE(Top(stack).val), 1, w)
       /\ OnlyRangeWritten(a, w)

C15_NarrowStores == [][C15_NarrowStoreStep]_vars

\* i32.store8 of 65533 = 0xFFFD to the last byte of the page: the byte is
\* written, its neighbour keeps the initial data
C15_Witness ==
  /\ FuncGlobal(entry).name = "narrow32"
  /\ result.kind = "Running"
  /\ pc.inst = 3
  /\ CurrentFrame(stack).locals = <<VI32(PageSize - 1), VI32(65533)>>
  /\ MemLen(mem) = PageSize
  /\ ByteAt(mem, PageSize - 1) = 253
  /\ ByteAt(mem, PageSize - 2) = InitialData[PageSize - 2]

ExtendLoadOps == LoadOps \ {"I32Load", "I64Load", "F32Load", "F64Load"}

SignedLoadOps ==
  {"I32Load8S", "I32Load16S", "I64Load8S", "I64Load16S", "I64Load32S"}

NarrowFuncs == {"narrow32", "narrow64"}

\* the index of the last store before instruction i of the current function
LastStoreBefore(i) ==
  CHOOSE j \in 0..(i - 1) :
    /\ Code[j + 1].op \in StoreOps
    /\ \A k \in (j + 1)..(i - 1) : Code[k + 1].op \notin StoreOps

\* the low width bytes of v read as an unsigned number (as the signed 32-bit
\* pattern when width is 4)
LowUnsigned(v, width) ==
  CASE width = 1 -> v.v % 256
    [] width = 2 -> v.v % 65536
    [] OTHER -> v.v

\* the low width bytes of v read as a two's complement number
LowSigned(v, width) ==
  CASE width = 1 -> IF v.v % 256 >= 128 THEN (v.v % 256) - 256 ELSE v.v % 256
    [] width = 2 -> IF v.v % 65536 >= 32768 THEN (v.v % 65536) - 65536 ELSE v.v % 65536
    [] OTHER -> v.v

\* what an extending load pushes after the store of v with the same width
Extended(op, v) ==
  IF op \in SignedLoadOps
  THEN [ty |-> AccessType(op), v |-> LowSigned(v, AccessWidth(op)),
        hi |-> IF AccessType(op) = "I64" /\ LowSigned(v, AccessWidth(op)) < 0 THEN -1 ELSE 0]
  ELSE [ty |-> AccessType(op), v |-> LowUnsigned(v, AccessWidth(op)), hi |-> 0]

(***************************************************************************)
(* C16: extension round-trip.  For every 8-bit value v stored with         *)
(* i32.store8 at an in-bounds address, i32.load8_s at that address pushes  *)
(* v sign-extended to 32 bits and i32.load8_u pushes v zero-extended; the  *)
(* same holds for the 16-bit pair and for the i64 8/16/32-bit loads and    *)
(* stores.                                                                 *)
(***************************************************************************)
C16_ExtendStep ==
  (/\ AtInst
   /\ FuncGlobal(pc.func).name \in NarrowFuncs
   /\ CurrentInst.op \in ExtendLoadOps
   /\ LoadReady
   /\ AccessInside) =>
    LET v == CurrentFrame(stack).locals[2]
        st == Code[LastStoreBefore(pc.inst) + 1]
    IN /\ AccessBase = CurrentFrame(stack).locals[1].v
       /\ st.op \in NarrowStoreOps
       /\ AccessWidth(st.op) = AccessWidth(CurrentInst.op)
       /\ AccessType(st.op) = AccessType(CurrentInst.op)
       /\ st.a = CurrentInst.a
       /\ v.ty = AccessType(CurrentInst.op)
       /\ signal' = "Next"
       /\ stack' = Append(Front(stack), SV(Extended(CurrentInst.op, v)))
       /\ mem' = mem

C16_ExtensionRoundTrip == [][C16_ExtendStep]_vars

\* i64.store32 of 0x123456789ABCDEF0 at 4, then i64.load32_s: the low half
\* 0x9ABCDEF0 comes back with every upper bit set
C16_Witness ==
  /\ FuncGlobal(entry).name = "narrow64"
  /\ result.kind = "Running"
  /\ pc.inst = 23
  /\ CurrentFrame(stack).locals = <<VI32(4), VI64(<<305419896, -1698898192>>)>>
  /\ Top(stack) = SV(VI64(<<-1, -1698898192>>))

(***************************************************************************)
(* C17: MemoryGrow pops an i32 delta and never traps: when the growth      *)
(* succeeds it pushes the page count from before the growth and a          *)
(* following MemorySize reports old + delta; when the growth would exceed  *)
(* the maximum it pushes I32(-1) and the page count and contents are       *)
(* unchanged (no partial growth).  After any sequence of MemoryGrow steps  *)
(* the page count never exceeds the declared maximum and never decreases.  *)
(***************************************************************************)
C17_GrowStep ==
  (AtInst /\ CurrentInst.op = "MemoryGrow" /\ Len(stack) >= 1 /\ IsI32Entry(Top(stack))) =>
    LET delta == Top(stack).val.v
        old == mem.pages
    IN /\ signal' = "Next"
       /\ trap' = NoTrap
       /\ IF delta >= 0 /\ delta <= mem.max - old
          THEN /\ stack' = Append(Front(stack), SV(VI32(old)))
               /\ mem'.pages = old + delta
               /\ mem'.max = mem.max
          ELSE /\ stack' = Append(Front(stack), SV(VI32(-1)))
               /\ mem' = mem

C17_SizeStep ==
  (AtInst /\ CurrentInst.op = "MemorySize") =>
    /\ signal' = "Next"
    /\ stack' = Append(stack, SV(VI32(mem.pages)))
    /\ mem' = mem

C17_PagesStep ==
  /\ mem'.pages >= mem.pages
  /\ mem'.max = mem.max

C17_PagesWithinMax == mem.pages <= mem.max

C17_MemoryGrow ==
  [](C17_PagesWithinMax) /\ [][C17_GrowStep /\ C17_SizeStep /\ C17_PagesStep]_vars

\* grow(1) has succeeded on a memory of one page with maximum two, and the
\* second grow(1) has just pushed -1 without changing the size
C17_Witness ==
  /\ FuncGlobal(entry).name = "grow_twice"
  /\ result.kind = "Running"
  /\ pc.inst = 5
  /\ CurrentFrame(stack).locals = <<VI32(1), VI32(1)>>
  /\ Top(stack) = SV(VI32(-1))
  /\ mem.pages = InitialPages + 1
  /\ mem.pages = mem.max

DivSOps == {"I32DivS", "I64DivS"}

RemSOps == {"I32RemS", "I64RemS"}

DivRemOps ==
  DivSOps \cup RemSOps \cup {"I32DivU", "I64DivU", "I32RemU", "I64RemU"}

DivRemType(op) ==
  IF op \in {"I32DivS", "I32DivU", "I32RemS", "I32RemU"} THEN "I32" ELSE "I64"

\* a division or remainder with both operands of its type on the stack
DivRemReady ==
  /\ AtInst
  /\ CurrentInst.op \in DivRemOps
  /\ Len(stack) >= 2
  /\ IsValue(Top(stack))
  /\ Top(stack).val.ty = DivRemType(CurrentInst.op)
  /\ IsValue(stack[Len(stack) - 1])
  /\ stack[Len(stack) - 1].val.ty = DivRemType(CurrentInst.op)

IsZero(val) == val.v = 0 /\ val.hi = 0

IsMinusOne(val) == val.v = -1 /\ (val.ty = "I64" => val.hi = -1)

\* INT_MIN of the value's type
IsIntMin(val) ==
  IF val.ty = "I64" THEN val.hi = MinI32 /\ val.v = 0 ELSE val.v = MinI32

ZeroOf(ty) == [ty |-> ty, v |-> 0, hi |-> 0]

DivRemTraps(t) ==
  /\ signal' = "Trap"
  /\ trap' = t
  /\ result' = [kind |-> "ExecutionError", values |-> <<>>, err |-> t]
  /\ stack' = SubSeq(stack, 1, Len(stack) - 2)

(***************************************************************************)
(* C18: for i32 and i64, div_s, div_u, rem_s and rem_u with divisor 0 trap *)
(* with IntegerDivByZero; div_s of INT_MIN by -1 traps with                *)
(* IntegerOverflow; rem_s of INT_MIN by -1 does not trap; whenever one of  *)
(* these traps, both operands have been consumed and no result value is    *)
(* pushed.                                                                 *)
(***************************************************************************)
C18_DivRemStep ==
  DivRemReady =>
    LET rhs == Top(stack).val
        lhs == stack[Len(stack) - 1].val
        op == CurrentInst.op
    IN /\ IsZero(rhs) => DivRemTraps(TrapIntegerDivByZero)
       /\ (op \in DivSOps /\ IsIntMin(lhs) /\ IsMinusOne(rhs)) =>
            DivRemTraps(TrapIntegerOverflow)
       /\ (op \in RemSOps /\ IsIntMin(lhs) /\ IsMinusOne(rhs)) =>
            /\ signal' = "Next"
            /\ stack' = Append(SubSeq(stack, 1, Len(stack) - 2), SV(ZeroOf(lhs.ty)))
       /\ signal' = "Trap" =>
            /\ trap' \in {TrapIntegerDivByZero, TrapIntegerOverflow}
            /\ stack' = SubSeq(stack, 1, Len(stack) - 2)
       /\ signal' \in {"Trap", "Next"}

C18_DivRemTraps == [][C18_DivRemStep]_vars

\* i64.div_s of INT64_MIN by -1 has trapped: only the activation and its
\* label are left on the stack
C18_Witness ==
  /\ FuncGlobal(entry).name = "i64_div_s"
  /\ signal = "Trap"
  /\ trap = TrapIntegerOverflow
  /\ result.kind = "ExecutionError"
  /\ pc.inst = 3
  /\ Len(stack) = 2
  /\ CurrentFrame(stack).locals = <<VI64(<<MinI32, 0>>), VI64(Int64(-1))>>

(***************************************************************************)
(* C19: for a table of length len, after any sequence of initialize calls, *)
(* get_at(i) returns AccessOutOfBounds(i, len) exactly when i >= len,      *)
(* UninitializedElement(i) exactly when i < len and slot i has never been  *)
(* covered by a successful initialize, and otherwise the FuncAddr most     *)
(* recently written to slot i; get_at never modifies the table.            *)
(***************************************************************************)
C19_GetAtReturn ==
  tableRet.op = "get_at" =>
    LET i == tableRet.arg
        len == Len(table.buffer)
    IN /\ (tableRet.err = AccessOutOfBounds(<<i>>, len)) <=> (i >= len)
       /\ (tableRet.err = UninitializedElement(i)) <=> (i < len /\ tableWritten[i] = <<>>)
       /\ (i < len /\ tableWritten[i] # <<>>) =>
            /\ tableRet.ok
            /\ tableRet.err = NoTableError
            /\ tableRet.addr = tableWritten[i][1]
       /\ tableRet.ok <=> (i < len /\ tableWritten[i] # <<>>)

C19_GetAtStep ==
  (tableRet'.op = "get_at" /\ tableOps' # tableOps) => table' = table

C19_GetAt == [](C19_GetAtReturn) /\ [][C19_GetAtStep]_vars

\* slot 1 was written twice, first with function 0 and then with function 1,
\* and get_at(1) has returned the second
C19_Witness ==
  /\ tableOps = 3
  /\ tableRet.op = "get_at"
  /\ tableRet.arg = 1
  /\ tableRet.ok
  /\ tableRet.addr = FuncAddr(1, 1)
  /\ table.buffer = << <<FuncAddr(1, 0)>>, <<FuncAddr(1, 1)>>, <<>> >>

(***************************************************************************)
(* C20: a new table has `initial` slots, all empty.  initialize(offset,    *)
(* data) with offset + len(data) greater than the table length (or         *)
(* overflowing usize) returns AccessOutOfBounds and changes no slot (no    *)
(* partial write); otherwise it sets exactly the slots                     *)
(* [offset, offset + len(data)) to Some(data[k]) in order and leaves every *)
(* other slot and the table length unchanged.                              *)
(***************************************************************************)
C20_New ==
  tableRet.op = "new" =>
    /\ Len(table.buffer) = tableRet.arg
    /\ \A i \in 1..Len(table.buffer) : table.buffer[i] = <<>>

C20_InitializeStep ==
  (tableRet'.op = "initialize" /\ tableOps' # tableOps) =>
    LET offset == tableRet'.arg
        data == tableRet'.data
        len == Len(table.buffer)
    IN IF offset > UsizeMax - Len(data) \/ offset + Len(data) > len
       THEN /\ ~tableRet'.ok
            /\ tableRet'.err.name = "AccessOutOfBounds"
            /\ tableRet'.err.size = len
            /\ table' = table
       ELSE /\ tableRet'.ok
            /\ tableRet'.err = NoTableError
            /\ Len(table'.buffer) = len
            /\ table'.max = table.max
            /\ \A k \in 1..Len(data) : table'.buffer[offset + k] = <<data[k]>>
            /\ \A i \in 1..len :
                 (i - 1 < offset \/ i - 1 >= offset + Len(data)) =>
                   table'.buffer[i] = table.buffer[i]

C20_Initialize == [](C20_New) /\ [][C20_InitializeStep]_vars

\* a segment of two that starts at the last slot of a table of three has
\* been refused, and the slot written before still holds its address
C20_Witness ==
  /\ tableOps = 2
  /\ tableRet.op = "initialize"
  /\ tableRet.arg = 2
  /\ Len(tableRet.data) = 2
  /\ ~tableRet.ok
  /\ tableRet.err = AccessOutOfBounds(<<4>>, 3)
  /\ table.buffer = << <<>>, <<>>, <<FuncAddr(1, 0)>> >>

(***************************************************************************)
(* C21 (as stated): the step that executes an opcode outside the supported *)
(* set returns an error value, which the driver surfaces as an Err result  *)
(* of the run: the step does not abort the process and returns neither     *)
(* Next nor End.                                                           *)
(***************************************************************************)
C21_UnimplementedStep ==
  AtInst /\ CurrentInst.op \in UnimplementedOps =>
    /\ signal' = "Trap"
    /\ result'.kind = "ExecutionError"

C21_UnimplementedTraps == [][C21_UnimplementedStep]_vars

(***************************************************************************)
(* C22 (as stated): an instruction that breaks what validation guarantees  *)
(* makes the step return Err(Trap), which ends the run as ExecutionError,  *)
(* and does not panic: a Br, a taken BrIf or a BrTable whose depth is not  *)
(* below the number of labels of the current frame, and a LocalGet,        *)
(* LocalSet or LocalTee whose index is not below the frame's local count.  *)
(***************************************************************************)
BranchesDeep ==
  LET labels == Len(CurrentFrameLabels(stack))
      inst == CurrentInst
      operand == stack # <<>> /\ IsValue(Top(stack))
  IN \/ inst.op = "Br" /\ inst.a >= labels
     \/ inst.op = "BrIf" /\ operand /\ Top(stack).val # VI32(0) /\ inst.a >= labels
     \/ /\ inst.op = "BrTable" /\ operand /\ Top(stack).val.ty = "I32"
        /\ LET i == Top(stack).val.v
           IN (IF i >= 0 /\ i < Len(inst.tbl) THEN inst.tbl[i + 1] ELSE inst.a) >= labels

LocalOutOfRange ==
  /\ CurrentInst.op \in {"LocalGet", "LocalSet", "LocalTee"}
  /\ CurrentInst.a >= Len(CurrentFrame(stack).locals)
  /\ CurrentInst.op # "LocalGet" => stack # <<>> /\ IsValue(Top(stack))

C22_ValidationStep ==
  AtInst /\ (BranchesDeep \/ LocalOutOfRange) =>
    /\ signal' = "Trap"
    /\ result'.kind = "ExecutionError"

C22_ValidationTraps == [][C22_ValidationStep]_vars

(***************************************************************************)
(* C23 (as stated): a GlobalSet that targets a global whose mutable flag   *)
(* is false traps (the step returns Err and the run ends as                *)
(* ExecutionError), and the value of the global is unchanged afterwards.   *)
(***************************************************************************)
GlobalSetReady ==
  /\ AtInst
  /\ CurrentInst.op = "GlobalSet"
  /\ stack # <<>>
  /\ IsValue(Top(stack))

C23_GlobalSetStep ==
  GlobalSetReady /\ ~StoreGlobals[CurrentInst.a + 1].mutable =>
    /\ signal' = "Trap"
    /\ result'.kind = "ExecutionError"
    /\ globals'[CurrentInst.a + 1] = globals[CurrentInst.a + 1]

C23_ImmutableGlobal == [][C23_GlobalSetStep]_vars

(***************************************************************************)
(* C24 (as stated): after any sequence of steps the type tag of the value  *)
(* of every global is the declared type of the global; a GlobalSet whose   *)
(* popped value has another type tag does not store that value.            *)
(***************************************************************************)
C24_GlobalSetStep ==
  GlobalSetReady /\ Top(stack).val.ty # StoreGlobals[CurrentInst.a + 1].ty =>
    globals'[CurrentInst.a + 1] = globals[CurrentInst.a + 1]

C24_GlobalTypes ==
  /\ [](\A i \in 1..Len(StoreGlobals) : globals[i].ty = StoreGlobals[i].ty)
  /\ [][C24_GlobalSetStep]_vars

(***************************************************************************)
(* C25 (as stated): when the body of a host function returns an error the  *)
(* invocation is aborted and simple_invoke_func returns                    *)
(* WasmError::HostExecutionError, both when the host function is the entry *)
(* function and when it is called by a Call of a defined function; in      *)
(* neither case is a result of the host function pushed or returned.       *)
(***************************************************************************)
\* the function a Call at the pc would invoke, as a sequence of at most one
CallTarget ==
  IF AtInst /\ CurrentInst.op = "Call" /\ HasFrame(stack)
  THEN LET r == StoreFunc(FuncAddr(CurrentFrame(stack).module, CurrentInst.a))
       IN IF r = <<>> THEN <<>> ELSE <<FuncGlobal(r[1])>>
  ELSE <<>>

\* the arguments of that Call are on the stack, above the frame's entries
CallArgsReady ==
  /\ CallTarget # <<>>
  /\ LET k == Len(CallTarget[1].params)
     IN /\ Len(stack) - k > TopActivation(stack)
        /\ \A i \in (Len(stack) - k + 1)..Len(stack) : IsValue(stack[i])

CallArgs ==
  LET k == Len(CallTarget[1].params)
  IN [i \in 1..k |-> stack[Len(stack) - k + i].val]

HostCallFails ==
  /\ CallArgsReady
  /\ CallTarget[1].host # "none"
  /\ ~HostCall(CallTarget[1], CallArgs).ok

C25_HostErrorStep ==
  /\ ~DefinedEntry /\ FuncGlobal(entry).host = "fail" =>
       /\ result' = [kind |-> "HostExecutionError", values |-> <<>>, err |-> NoTrap]
       /\ stack' = stack
  /\ HostCallFails =>
       /\ result'.kind = "HostExecutionError"
       /\ result'.values = <<>>
       /\ stack' = SubSeq(stack, 1, Len(stack) - Len(CallTarget[1].params))

C25_HostError == [][C25_HostErrorStep]_vars

(***************************************************************************)
(* C26: invoke_func is called exactly once in a step that enters a defined *)
(* function by Call or CallIndirect, with the name of the callee, when the *)
(* callee's activation and Return label are on the stack and the pc is at  *)
(* instruction 0 of the callee, and the signal it returns (Breakpoint for  *)
(* a function with a breakpoint, Next otherwise) is the signal of the      *)
(* step.  It is not called in any other step: not by a call of a host      *)
(* function, not by any other instruction, not in a step that traps; so no *)
(* trap is replaced by what the interceptor returns.                       *)
(***************************************************************************)
C26_InterceptStep ==
  DefinedEntry =>
    LET entered == ActCount(stack') = ActCount(stack) + 1
        callee == FuncGlobal(pc'.func)
    IN /\ CallArgsReady /\ CallTarget[1].host = "none" => entered
       /\ CallArgsReady /\ CallTarget[1].host # "none" => ~entered
       /\ entered =>
            /\ CurrentInst.op \in {"Call", "CallIndirect"}
            /\ callee.host = "none"
            /\ pc' = ProgramCounter(callee.module, pc'.func, 0)
            /\ Len(stack') >= 2
            /\ Top(stack') = SL(LabelReturn(Len(callee.returns)))
            /\ IsActivation(stack'[Len(stack') - 1])
            /\ stack'[Len(stack') - 1].frame.func = pc'.func
            /\ intercepted' = <<InterceptorCall(callee.name, pc', stack')>>
            /\ signal' = (IF callee.name \in breakFuncs THEN "Breakpoint" ELSE "Next")
       /\ ~entered => intercepted' = <<>>
       /\ signal' \in {"Trap", "Panic"} => intercepted' = <<>> /\ result'.kind # "Running"

C26_Interceptor == [][C26_InterceptStep]_vars

\* the interceptor has just stopped at a breakpoint on entry to a callee
C26_Witness ==
  /\ Len(intercepted) = 1
  /\ signal = "Breakpoint"
  /\ ActCount(stack) >= 2
  /\ pc.inst = 0
  /\ result.kind = "Running"

(***************************************************************************)
(* C27: while the run of a defined entry function goes on (every step so   *)
(* far succeeded and none returned End), the topmost activation has at     *)
(* least one label above it, and the lowest of them, the entry just above  *)
(* the activation, is a Return label whose arity is the number of results  *)
(* declared by the function being executed.                                *)
(***************************************************************************)
C27_ReturnLabel ==
  DefinedEntry /\ result.kind = "Running" =>
    /\ HasFrame(stack)
    /\ CurrentFrame(stack).func = pc.func
    /\ CurrentFrameLabels(stack) # <<>>
    /\ CurrentFrameLabels(stack)[1] = LabelReturn(Len(FuncGlobal(pc.func).returns))
    /\ stack[TopActivation(stack) + 1] = SL(LabelReturn(Len(FuncGlobal(pc.func).returns)))

\* inside a block of a callee, two activations deep
C27_Witness ==
  /\ result.kind = "Running"
  /\ steps > 0
  /\ ActCount(stack) >= 2
  /\ Len(CurrentFrameLabels(stack)) >= 2
  /\ CurrentFrameLabels(stack)[2].kind = "Block"

(***************************************************************************)
(* C28: a step that enters a defined function leaves every activation      *)
(* already on the stack as it was and puts on top a fresh one whose first  *)
(* |params| locals are the arguments in the order the caller pushed them,  *)
(* followed by the declared locals, zeroed.  A step that pops no           *)
(* activation and pushes none changes at most the locals of the top        *)
(* activation, and only LocalSet and LocalTee change those: the local they *)
(* name, to the value on top of the stack.  A step that pops an activation *)
(* leaves the ones below as they were.  So from a Call to the return of    *)
(* the callee the locals of the caller, and of every activation below it,  *)
(* keep the values they had at the time of the Call, also when the callee  *)
(* is another activation of the same function: fact, invoked with n in     *)
(* 0..5, returns n!, and fact(5) returns [I32(120)].                       *)
(***************************************************************************)
\* the call frames on the stack, the root activation first
RECURSIVE FramesOf(_)
FramesOf(s) ==
  IF s = <<>> THEN <<>>
  ELSE IF IsActivation(s[1]) THEN <<s[1].frame>> \o FramesOf(Tail(s))
  ELSE FramesOf(Tail(s))

RECURSIVE Factorial(_)
Factorial(n) == IF n <= 0 THEN 1 ELSE n * Factorial(n - 1)

C28_EnterStep ==
  LET F == FramesOf(stack)
      G == FramesOf(stack')
      callee == FuncGlobal(pc'.func)
      k == Len(callee.params)
      x == IF CurrentInst.op = "CallIndirect" THEN 1 ELSE 0
      new == G[Len(G)]
  IN /\ SubSeq(G, 1, Len(F)) = F
     /\ new.func = pc'.func
     /\ Len(new.locals) = k + Len(callee.locals)
     /\ \A i \in 1..k : new.locals[i] = stack[Len(stack) - x - k + i].val
     /\ \A i \in 1..Len(callee.locals) :
          new.locals[k + i] = [ty |-> callee.locals[i], v |-> 0, hi |-> 0]

C28_StayStep ==
  LET F == FramesOf(stack)
      G == FramesOf(stack')
      n == Len(F)
  IN /\ SubSeq(G, 1, n - 1) = SubSeq(F, 1, n - 1)
     /\ G[n].func = F[n].func
     /\ IF /\ CurrentInst.op \in {"LocalSet", "LocalTee"}
           /\ CurrentInst.a < Len(F[n].locals)
           /\ IsValue(Top(stack))
        THEN G[n].locals = [F[n].locals EXCEPT ![CurrentInst.a + 1] = Top(stack).val]
        ELSE G[n] = F[n]

C28_FrameStep ==
  DefinedEntry /\ signal' \in {"Next", "Breakpoint", "End"} =>
    LET n == ActCount(stack)
        m == ActCount(stack')
    IN /\ m \in {n - 1, n, n + 1}
       /\ m = n + 1 => C28_EnterStep
       /\ m = n => C28_StayStep
       /\ m = n - 1 => FramesOf(stack') = SubSeq(FramesOf(stack), 1, n - 1)
       /\ FuncGlobal(entry).name = "fact" /\ signal' = "End" =>
            /\ stack[1].frame.locals[1].v \in 0..5
            /\ result'.kind = "Ok"
            /\ result'.values = <<VI32(Factorial(stack[1].frame.locals[1].v))>>

C28_Frames == [][C28_FrameStep]_vars

\* fact(5) has returned [I32(120)]
C28_Witness ==
  /\ FuncGlobal(entry).name = "fact"
  /\ result.kind = "Ok"
  /\ result.values = <<VI32(120)>>
  /\ steps > 60

(***************************************************************************)
(* C29 (as stated): eval_const_expr returns the immediate of a single      *)
(* i32, i64, f32 or f64 const instruction, and the current value of the    *)
(* global for a GlobalGet of an imported immutable global; for every other *)
(* instruction, and for a GlobalGet of a global that is mutable or is not  *)
(* imported, it returns an error result and no Value.                      *)
(***************************************************************************)
C29_EvalStep ==
  LET e == constEval.expr
      r == constEval'
  IN ~constEval.done /\ r.done =>
       CASE e.op = "I32Const" -> r.kind = "Ok" /\ r.val = [ty |-> "I32", v |-> e.a, hi |-> 0]
         [] e.op = "F32Const" -> r.kind = "Ok" /\ r.val = [ty |-> "F32", v |-> e.a, hi |-> 0]
         [] e.op = "I64Const" ->
              r.kind = "Ok" /\ r.val = [ty |-> "I64", v |-> e.a[2], hi |-> e.a[1]]
         [] e.op = "F64Const" ->
              r.kind = "Ok" /\ r.val = [ty |-> "F64", v |-> e.a[2], hi |-> e.a[1]]
         [] /\ e.op = "GlobalGet"
            /\ StoreGlobals[e.a + 1].imported
            /\ ~StoreGlobals[e.a + 1].mutable ->
              r.kind = "Ok" /\ r.val = globals[e.a + 1]
         [] OTHER -> r.kind = "Err" /\ r.val = NoValue

C29_ConstExpr == [][C29_EvalStep]_vars

\* the pc is on the Else of the innermost If around it, and the innermost
\* label of the current frame is an If label with its results above it
AtElseOfThenBranch ==
  /\ AtInst
  /\ CurrentInst.op = "Else"
  /\ HasFrame(stack)
  /\ Enclosing(Code, pc.inst) # {}
  /\ Code[EnclosingAt(Code, pc.inst, 0) + 1].op = "If"
  /\ OwnElse(Code, EnclosingAt(Code, pc.inst, 0)) = pc.inst
  /\ Len(CurrentFrameLabels(stack)) >= 1
  /\ stack[LabelIndex(stack, 0)].label.kind = "If"
  /\ LET n == stack[LabelIndex(stack, 0)].label.arity
     IN /\ Len(stack) - n >= LabelIndex(stack, 0)
        /\ \A i \in (Len(stack) - n + 1)..Len(stack) : IsValue(stack[i])

(***************************************************************************)
(* C30: an Else reached at the end of a then-branch behaves exactly as a   *)
(* Br 0 on the innermost If label: the step keeps the top `arity` values   *)
(* in their order, discards every other entry above the If label, pops the *)
(* If label, leaves everything below it alone, and puts the pc just past   *)
(* the End that closes this If, so that no instruction of the else-branch  *)
(* is executed, whatever Block, Loop or If the else-branch nests.  Any     *)
(* Else step has the outcome Br 0 has in the same state.                   *)
(***************************************************************************)
C30_ElseStep ==
  /\ AtElseOfThenBranch =>
       LET li == LabelIndex(stack, 0)
           n == stack[li].label.arity
           o == EnclosingAt(Code, pc.inst, 0)
       IN /\ signal' = "Next"
          /\ stack' = SubSeq(stack, 1, li - 1) \o TopN(stack, n)
          /\ Len(CurrentFrameLabels(stack')) = Len(CurrentFrameLabels(stack)) - 1
          /\ pc' = [pc EXCEPT !.inst = ClosingEnd(Code, o) + 1]
          /\ pc'.inst \notin (pc.inst + 1)..ClosingEnd(Code, o)
          /\ steps' = steps + 1
  /\ AtInst /\ CurrentInst.op = "Else" =>
       LET b == TerminationCheck(ExecBr(Advanced, InsA("Br", 0)))
       IN /\ pc' = b.st.pc
          /\ signal' = b.sig
          /\ trap' = b.trap
          /\ b.sig = "Next" => stack' = b.st.stack

C30_ElseIsBr0 == [][C30_ElseStep]_vars

\* else_nested just after the Else of its then-branch: of the two values
\* above the If label the upper one is left, and the pc is past the End of
\* the If, beyond the Block, Loop and If of the else-branch
C30_Witness ==
  /\ FuncGlobal(entry).name = "else_nested"
  /\ pc.func = entry
  /\ pc.inst = 17
  /\ signal = "Next"
  /\ result.kind = "Running"
  /\ Len(stack) = 3
  /\ Top(stack) = SV(VI32(2))
  /\ Len(CurrentFrameLabels(stack)) = 1

(***************************************************************************)
(* C31: Return, at any block nesting depth, with |returns| values on top   *)
(* of the stack: the step keeps those values, removes every label and     *)
(* value of the current activation and the activation itself, leaves the   *)
(* caller's part of the stack alone, pushes the kept values on it (in the  *)
(* order they were popped) and restores the pc from ret_pc.  When the      *)
(* activation is the root one the same step returns End: nothing is left   *)
(* below the kept values, which the driver pops as the results.            *)
(***************************************************************************)
C31_ReturnStep ==
  (/\ AtInst
   /\ CurrentInst.op = "Return"
   /\ HasFrame(stack)
   /\ LET n == Len(FuncGlobal(pc.func).returns)
      IN \A i \in (Len(stack) - n + 1)..Len(stack) : i > 0 /\ IsValue(stack[i]))
  => LET p == TopActivation(stack)
         n == Len(FuncGlobal(pc.func).returns)
         kept == TopN(stack, n)
     IN IF stack[p].frame.ret_pc = <<>>
        THEN /\ signal' = "End"
             /\ p = 1
             /\ \A i \in 1..Len(stack') : stack'[i] = kept[n + 1 - i]
             /\ result'.kind \in {"Ok", "ReturnValueError.TypeMismatchReturnValue"}
             /\ result'.kind = "Ok" =>
                  /\ result'.values = [i \in 1..n |-> kept[i].val]
                  /\ stack' = <<>>
        ELSE /\ signal' = "Next"
             /\ stack' = SubSeq(stack, 1, p - 1) \o [i \in 1..n |-> kept[n + 1 - i]]
             /\ pc' = stack[p].frame.ret_pc[1]
             /\ result'.kind = "Running"

C31_Return == [][C31_ReturnStep]_vars

\* call_ret_deep just after ret_deep returned from inside its Block, Loop
\* and If: the caller's 5 and the returned argument, nothing else
C31_Witness ==
  /\ FuncGlobal(entry).name = "call_ret_deep"
  /\ pc.func = entry
  /\ pc.inst = 3
  /\ signal = "Next"
  /\ Len(stack) = 4
  /\ stack[3] = SV(VI32(5))
  /\ IsValue(stack[4]) /\ stack[4].val.v # 0

\* ret_deep as the root function: its Return three constructs deep ends the run
C31_WitnessRoot ==
  /\ FuncGlobal(entry).name = "ret_deep"
  /\ pc.inst = 8
  /\ signal = "End"
  /\ result.kind = "Ok"

\* exactly |returns| values lie above the Return label of the current
\* function and no other label is open
AtFunctionExit ==
  /\ result.kind = "Running"
  /\ HasFrame(stack)
  /\ Len(CurrentFrameLabels(stack)) = 1
  /\ LET p == TopActivation(stack)
         n == Len(FuncGlobal(pc.func).returns)
     IN /\ Len(stack) = p + 1 + n
        /\ IsLabel(stack[p + 1])
        /\ stack[p + 1].label.kind = "Return"
        /\ \A i \in (p + 2)..Len(stack) : IsValue(stack[i])

\* what execute_inst returns for End, for Return and for Br 0 from the
\* current state
LeaveByEnd == TerminationCheck(ExecEnd(Advanced, Ins("End")))
LeaveByReturn == TerminationCheck(ExecReturn(Advanced, Ins("Return")))
LeaveByBr == TerminationCheck(ExecBr(Advanced, InsA("Br", 0)))

(***************************************************************************)
(* C32: from a state in which exactly |returns| values lie above the       *)
(* function's Return label and no other label is open, End, Return and     *)
(* Br 0 produce the same stack, the same pc and the same signal, in the    *)
(* root activation and in any other; the executor's step on any of the     *)
(* three instructions in such a state has that common outcome.             *)
(***************************************************************************)
C32_Agree ==
  AtFunctionExit =>
    /\ LeaveByEnd.st.stack = LeaveByReturn.st.stack
    /\ LeaveByEnd.st.stack = LeaveByBr.st.stack
    /\ LeaveByEnd.st.pc = LeaveByReturn.st.pc
    /\ LeaveByEnd.st.pc = LeaveByBr.st.pc
    /\ LeaveByEnd.sig = LeaveByReturn.sig
    /\ LeaveByEnd.sig = LeaveByBr.sig
    /\ LeaveByEnd.sig = (IF TopActivation(stack) = 1 THEN "End" ELSE "Next")

C32_LeaveStep ==
  (/\ AtFunctionExit
   /\ pc.inst < Len(Code)
   /\ \/ CurrentInst.op \in {"End", "Return"}
      \/ CurrentInst.op = "Br" /\ CurrentInst.a = 0)
  => /\ pc' = LeaveByEnd.st.pc
     /\ signal' = LeaveByEnd.sig
     /\ signal' = "Next" => stack' = LeaveByEnd.st.stack

C32_LeavingAgrees == [](C32_Agree) /\ [][C32_LeaveStep]_vars

\* call_leave_br just after leave_br left by Br 0 on its Return label
C32_Witness ==
  /\ FuncGlobal(entry).name = "call_leave_br"
  /\ pc.func = entry
  /\ pc.inst = 3
  /\ signal = "Next"
  /\ stack[3] = SV(VI32(5))
  /\ Len(stack) = 4

(***************************************************************************)
(* C33: in every state between two steps of a run, the number of labels of *)
(* the current activation is 1 plus the number of Block, Loop and If       *)
(* instructions at an index below pc.inst_index whose closing End is at an *)
(* index greater than or equal to pc.inst_index: after fall-through, after *)
(* an If with a zero condition, after Else and after every Br, BrIf and    *)
(* BrTable, calls and returns included.                                    *)
(***************************************************************************)
C33_LabelsMatchPc ==
  DefinedEntry /\ result.kind = "Running" /\ pc.inst < Len(Code) =>
    /\ HasFrame(stack)
    /\ Len(CurrentFrameLabels(stack)) =
         1 + Cardinality({o \in 0..(pc.inst - 1) :
                            IsOpen(Code, o) /\ ClosingEnd(Code, o) >= pc.inst})

\* else_nested with argument 0 in the else-branch of its inner If: both Ifs
\* were entered with a zero condition, inside a Block and a Loop
C33_Witness ==
  /\ FuncGlobal(entry).name = "else_nested"
  /\ result.kind = "Running"
  /\ pc.inst = 11
  /\ signal = "Next"
  /\ Len(CurrentFrameLabels(stack)) = 5

\* the entry function is a defined one without Loop, Call and CallIndirect
LoopFreeEntry ==
  /\ DefinedEntry
  /\ \A i \in 1..Len(FuncGlobal(entry).code) :
       FuncGlobal(entry).code[i].op \notin {"Loop", "Call", "CallIndirect"}

(***************************************************************************)
(* C34: for a defined entry function whose body contains no Loop, no Call  *)
(* and no CallIndirect, every step strictly increases pc.inst_index inside *)
(* that function, the number of steps taken never exceeds the number of    *)
(* instructions of the body, and simple_invoke_func terminates: the run    *)
(* ends with values, with a trap, or with the abort of a step that panics. *)
(***************************************************************************)
C34_PcStep ==
  LoopFreeEntry /\ result.kind = "Running" /\ steps' = steps + 1 =>
    /\ pc'.func = pc.func
    /\ pc'.inst > pc.inst

C34_StepBound ==
  LoopFreeEntry =>
    /\ steps <= Len(FuncGlobal(entry).code)
    /\ steps <= pc.inst
    /\ result.kind = "Running" => pc.inst < Len(FuncGlobal(entry).code)
    /\ result.kind \in {"Running", "Ok", "ExecutionError", "Panic",
                        "ReturnValueError.TypeMismatchReturnValue",
                        "ReturnValueError.Stack"}

StepOutcome == ExecuteStep(Machine, breakFuncs)

(***************************************************************************)
(* C35: execute_step returns End on exactly the step that removes the root *)
(* activation (the only one whose ret_pc is None) and on no step that      *)
(* leaves an activation on the stack; at that moment the stack holds no    *)
(* Label and no Activation and consists of exactly as many values as the   *)
(* root function declares results.  While the driver's loop is running no  *)
(* End has been returned and the root activation is on the stack.          *)
(***************************************************************************)
C35_EndStep ==
  DefinedEntry /\ AtInst /\ steps' = steps + 1 =>
    LET after == StepOutcome.st.stack
    IN /\ signal' = StepOutcome.sig
       /\ signal' = "End" <=> (ActCount(stack) >= 1 /\ ActCount(after) = 0)
       /\ signal' = "End" =>
            /\ ActCount(stack) = 1
            /\ stack[1].frame.ret_pc = <<>>
            /\ \A i \in 1..Len(after) : IsValue(after[i])
            /\ Len(after) = Len(EntryReturns)
            /\ result'.kind # "Running"
       /\ ActCount(after) >= 1 => signal' # "End"

C35_RootOnStack ==
  DefinedEntry /\ result.kind = "Running" =>
    /\ signal # "End"
    /\ ActCount(stack) >= 1
    /\ IsActivation(stack[1])
    /\ \A p \in ActivationPositions(stack) : (stack[p].frame.ret_pc = <<>>) <=> (p = 1)

C35_EndAtRootExit == [](C35_RootOnStack) /\ [][C35_EndStep]_vars

\* `outer` has ended after its calls returned: End came with the root's exit
C35_Witness ==
  /\ FuncGlobal(entry).name = "outer"
  /\ signal = "End"
  /\ result.kind = "Ok"
  /\ Len(result.values) = 1
  /\ stack = <<>>

\* byte i (0 the least significant) of a value, as a number in 0..255, and
\* bit i of a value
ByteOf(val, i) ==
  LET w == IF i < 4 THEN val.v ELSE val.hi
  IN (((w \div (256 ^ (i % 4))) % 256) + 256) % 256

BitOf(val, i) == (ByteOf(val, i \div 8) \div (2 ^ (i % 8))) % 2

\* the sum of two numbers in base 256: the carry into byte i, and byte i
RECURSIVE CarryInto(_, _, _)
CarryInto(a, b, i) ==
  IF i = 0 THEN 0
  ELSE (ByteOf(a, i - 1) + ByteOf(b, i - 1) + CarryInto(a, b, i - 1)) \div 256

SumByte(a, b, i) == (ByteOf(a, i) + ByteOf(b, i) + CarryInto(a, b, i)) % 256

\* the difference: the borrow from byte i, and byte i
RECURSIVE BorrowFrom(_, _, _)
BorrowFrom(a, b, i) ==
  IF i = 0 THEN 0
  ELSE IF ByteOf(a, i - 1) - ByteOf(b, i - 1) - BorrowFrom(a, b, i - 1) < 0 THEN 1 ELSE 0

DiffByte(a, b, i) == (ByteOf(a, i) - ByteOf(b, i) - BorrowFrom(a, b, i) + 256) % 256

\* the product: the byte products of column c, the carry into it, and byte c
RECURSIVE ColumnSum(_, _, _, _)
ColumnSum(a, b, c, j) ==
  IF j < 0 THEN 0 ELSE ByteOf(a, j) * ByteOf(b, c - j) + ColumnSum(a, b, c, j - 1)

RECURSIVE ColumnCarry(_, _, _)
ColumnCarry(a, b, c) ==
  IF c = 0 THEN 0
  ELSE (ColumnSum(a, b, c - 1, c - 1) + ColumnCarry(a, b, c - 1)) \div 256

ProdByte(a, b, c) == (ColumnSum(a, b, c, c) + ColumnCarry(a, b, c)) % 256

(***************************************************************************)
(* C37: the integer add, sub and mul arms never trap on two operands of    *)
(* their type and push the mathematical sum, difference and product        *)
(* modulo 2^32 (i32) and 2^64 (i64); shl, shr_s and shr_u shift by the     *)
(* count taken as an unsigned number modulo the bit width, shr_s filling   *)
(* with the sign bit and shl and shr_u with zeros; rotl and rotr rotate by *)
(* the count modulo the bit width.  The count modulo the width is that of  *)
(* its low word, 2^32 being a multiple of the width.                       *)
(***************************************************************************)
C37_BinopStep ==
  ~numEval.done /\ numEval'.done =>
    LET a == numEval.lhs
        b == numEval.rhs
        ty == SubSeq(numEval.op, 1, 3)
        f == SubSeq(numEval.op, 4, Len(numEval.op))
        n == IF ty = "I32" THEN 32 ELSE 64
        k == ((b.v % n) + n) % n
        out == numEval'.out
    IN /\ numEval'.sig = "Next"
       /\ Len(out) = 1
       /\ IsValue(out[1])
       /\ out[1].val.ty = ty
       /\ ty = "I32" => out[1].val.hi = 0
       /\ LET res == out[1].val
          IN CASE f = "Add" -> \A i \in 0..(n \div 8 - 1) : ByteOf(res, i) = SumByte(a, b, i)
               [] f = "Sub" -> \A i \in 0..(n \div 8 - 1) : ByteOf(res, i) = DiffByte(a, b, i)
               [] f = "Mul" -> \A i \in 0..(n \div 8 - 1) : ByteOf(res, i) = ProdByte(a, b, i)
               [] f = "Shl" ->
                    \A i \in 0..(n - 1) : BitOf(res, i) = (IF i >= k THEN BitOf(a, i - k) ELSE 0)
               [] f = "ShrU" ->
                    \A i \in 0..(n - 1) : BitOf(res, i) = (IF i + k < n THEN BitOf(a, i + k) ELSE 0)
               [] f = "ShrS" ->
                    \A i \in 0..(n - 1) :
                      BitOf(res, i) = (IF i + k < n THEN BitOf(a, i + k) ELSE BitOf(a, n - 1))
               [] f = "Rotl" -> \A i \in 0..(n - 1) : BitOf(res, i) = BitOf(a, (i + n - k) % n)
               [] f = "Rotr" -> \A i \in 0..(n - 1) : BitOf(res, i) = BitOf(a, (i + k) % n)

C37_WrappingIntegers == [][C37_BinopStep]_vars

\* 0x123456789ABCDEF0 rotated left by 65, which is by 1
C37_Witness ==
  /\ numEval.done
  /\ numEval.op = "I64Rotl"
  /\ numEval.lhs = VI64(<<305419896, -1698898192>>)
  /\ numEval.rhs = VI64(Int64(65))
  /\ numEval.out = << SV(VI64(<<610839793, 897170912>>)) >>

\* the number of values on top of the stack, above the innermost label
RECURSIVE ValuesOnTop(_)
ValuesOnTop(s) ==
  IF s = <<>> \/ ~IsValue(s[Len(s)]) THEN 0
  ELSE 1 + ValuesOnTop(SubSeq(s, 1, Len(s) - 1))

\* the pc is at a Call of an existing function
AtCall ==
  /\ DefinedEntry
  /\ AtInst
  /\ CurrentInst.op = "Call"
  /\ StoreFunc(FuncAddr(pc.module, CurrentInst.a)) # <<>>

Callee == FuncGlobal(StoreFunc(FuncAddr(pc.module, CurrentInst.a))[1])

TooFewOperands == ValuesOnTop(stack) < Len(Callee.params)

WrongOperandType ==
  /\ ~TooFewOperands
  /\ \E i \in 1..Len(Callee.params) :
       stack[Len(stack) - Len(Callee.params) + i].val.ty # Callee.params[i]

CallRejected ==
  /\ result'.kind = "ExecutionError"
  /\ trap'.name = "DirectCallTypeMismatch"
  /\ ActCount(stack') = ActCount(stack)
  /\ pc'.func = pc.func
  /\ intercepted' = <<>>

(***************************************************************************)
(* C38: a Call whose operands do not match the parameter list of the       *)
(* callee, because fewer values than parameters lie above the innermost    *)
(* label or because the type of a value differs from the declared type of  *)
(* its parameter, traps with DirectCallTypeMismatch; no activation is      *)
(* pushed and the pc does not move to the callee.                          *)
(***************************************************************************)
C38_CallStep ==
  AtCall /\ steps' = steps + 1 /\ (TooFewOperands \/ WrongOperandType) => CallRejected

C38_CallMismatch == [][C38_CallStep]_vars

(***************************************************************************)
(* C39: the interceptor is invoked on entry to every defined function, the *)
(* root function started with Executor::new included: before the first     *)
(* instruction of the root function executes, invoke_func has been called   *)
(* with its name, and with a breakpoint on it the signal is Breakpoint.     *)
(***************************************************************************)
C39_RootIntercepted ==
  DefinedEntry /\ result.kind = "Running" /\ steps = 0 =>
    /\ intercepted # <<>>
    /\ intercepted[Len(intercepted)].name = FuncGlobal(entry).name
    /\ FuncGlobal(entry).name \in breakFuncs => signal = "Breakpoint"

\* the narrowing width in bytes of a narrowing store
NarrowStoreBytes(op) ==
  CASE op \in {"I32Store8", "I64Store8"} -> 1
    [] op \in {"I32Store16", "I64Store16"} -> 2
    [] OTHER -> 4

\* the same bytes at every address a store of the model can have written
SameContents(m1, m2) ==
  /\ m1.pages = m2.pages
  /\ \A x \in (DOMAIN m1.bytes) \cup (DOMAIN m2.bytes) : ByteAt(m1, x) = ByteAt(m2, x)

(***************************************************************************)
(* C40: the narrowing stores of the older executor generation use byte     *)
(* widths too: i32.store8/16 and i64.store8/16/32 succeed exactly when the *)
(* 1, 2 or 4 bytes at the address lie inside the memory, write the low 1,  *)
(* 2 or 4 bytes of the value and leave every other byte as it was, so the  *)
(* memory after the store is the memory the newer generation leaves after  *)
(* the same store in the same state.                                       *)
(***************************************************************************)
C40_OldStoreStep ==
  steps = 0 /\ steps' = 1 /\ result.kind = "Running" /\ CurrentInst.op \in NarrowStores =>
    LET w == NarrowStoreBytes(CurrentInst.op)
        val == stack[Len(stack)].val
        base == stack[Len(stack) - 1].val.v
        newer == StoreWithWidth(Advanced, CurrentInst.a, SubSeq(CurrentInst.op, 1, 3), w)
    IN /\ signal' = "Next" <=> (base >= 0 /\ base + CurrentInst.a + w <= MemLen(mem))
       /\ signal' = "Next" =>
            \A x \in (DOMAIN mem.bytes) \cup (DOMAIN mem'.bytes) :
              ByteAt(mem', x) = (IF x >= base + CurrentInst.a /\ x < base + CurrentInst.a + w
                                 THEN IntoLE(val)[x - base - CurrentInst.a + 1]
                                 ELSE ByteAt(mem, x))
       /\ SameContents(mem', newer.st.mem)

C40_OldStoresNarrow == [][C40_OldStoreStep]_vars

\* the module that defines the function the pc is in
ExecutingModule == FuncGlobal(pc.func).module

\* the operands of the Call of func are on the stack
OperandsReady(func) == ValuesOnTop(stack) >= Len(func.params)

C36_FrameModule ==
  DefinedEntry /\ HasFrame(stack) =>
    /\ CurrentFrame(stack).module = ExecutingModule
    /\ CurrentFrame(stack).func = pc.func

C36_ResolveStep ==
  DefinedEntry /\ AtInst /\ steps' = steps + 1 =>
    /\ CurrentInst.op = "Call" =>
         LET r == StoreFunc(FuncAddr(ExecutingModule, CurrentInst.a))
         IN /\ r = <<>> => trap' = TrapUndefinedFunc(CurrentInst.a)
            /\ r # <<>> /\ FuncGlobal(r[1]).host = "none" /\ OperandsReady(FuncGlobal(r[1])) =>
                 /\ pc' = ProgramCounter(FuncGlobal(r[1]).module, r[1], 0)
                 /\ ActCount(stack') = ActCount(stack) + 1
            /\ ActCount(stack') > ActCount(stack) => r # <<>> /\ pc'.func = r[1]
    /\ CurrentInst.op = "CallIndirect" /\ ValuesOnTop(stack) >= 1 /\ Top(stack).val.ty = "I32" =>
         LET tbl == ModuleTable(ExecutingModule)
             ty == GetType(ExecutingModule, CurrentInst.a)
             i == Top(stack).val.v
             set == i >= 0 /\ i < Len(tbl) /\ tbl[i + 1] # <<>>
             r == StoreFunc(tbl[i + 1][1])
             typed == set /\ r # <<>> /\ EqFuncType(FuncGlobal(r[1]), ty)
         IN /\ ~set => trap'.name \in {"Table.AccessOutOfBounds", "Table.UninitializedElement"}
            /\ set /\ ~typed => trap' = TrapIndirectCallTypeMismatch
            /\ typed /\ FuncGlobal(r[1]).host = "none" /\ ValuesOnTop(stack) > Len(ty.params) =>
                 /\ pc' = ProgramCounter(FuncGlobal(r[1]).module, r[1], 0)
                 /\ ActCount(stack') = ActCount(stack) + 1
            /\ ActCount(stack') > ActCount(stack) => typed /\ pc'.func = r[1]
    /\ CurrentInst.op = "GlobalGet" =>
         /\ signal' = "Next"
         /\ stack' = PushValue(stack, globals[GlobalIndex(CurrentFrame(stack).module,
                                                          CurrentInst.a) + 1])
    /\ CurrentInst.op = "GlobalSet" /\ ValuesOnTop(stack) >= 1 =>
         globals' = [globals EXCEPT ![GlobalIndex(CurrentFrame(stack).module,
                                                  CurrentInst.a) + 1] = Top(stack).val]
    /\ (/\ CurrentInst.op = "I32Load"
        /\ ValuesOnTop(stack) >= 1
        /\ Top(stack).val.ty = "I32"
        /\ Top(stack).val.v >= 0
        /\ Top(stack).val.v <= MemLen(mem) - CurrentInst.a - 4) =>
         stack' = PushValue(Front(stack),
                            FromLE("I32", [i \in 1..4 |->
                                     ByteAt(mem, Top(stack).val.v + CurrentInst.a + i - 1)]))
    /\ ActCount(stack') < ActCount(stack) /\ ActCount(stack') >= 1 =>
         /\ signal' = "Next"
         /\ CurrentFrame(stack').module = FuncGlobal(pc'.func).module
         /\ pc'.module = FuncGlobal(pc'.func).module

(***************************************************************************)
(* C36: in every reachable state the module index of the current           *)
(* activation is the module index of the function the pc is in, so a Call  *)
(* resolves its function index, a CallIndirect table 0 and its type index, *)
(* a memory access memory 0, and GlobalGet and GlobalSet their global      *)
(* index in the module that defines the executing function; after a call   *)
(* into a function of another module has returned they are resolved in the *)
(* module of the caller again.  Memory 0 of the second module of the model *)
(* is the memory of the first, which it imports.                           *)
(***************************************************************************)
C36_ModuleResolution == [](C36_FrameModule) /\ [][C36_ResolveStep]_vars

\* cross_call 1 has ended: m2_mid ran in the second module (its leaf read 11
\* from that module's global 0, twice, and the load read memory 0), and after
\* its return cross_call called ident and read 7 from global 0 of its own module
C36_Witness ==
  /\ FuncGlobal(entry).name = "cross_call"
  /\ result.kind = "Ok"
  /\ result.values = << VI32(1 + 11 + 11 + 1026432784 + 7) >>

====
